---- MODULE Spec2Model ----
(***************************************************************************)
(* Model of the animation engine of hass-animated-scenes                   *)
(* (custom_components/animated_scenes/animations.py): the Animations       *)
(* manager, the Animation objects it registers, and the asyncio tasks      *)
(* that run them.  Every action is one run of a coroutine from one         *)
(* suspension point (an await that yields to the event loop) to the next.  *)
(***************************************************************************)
EXTENDS Integers, Sequences, FiniteSets, TLC

(***************************************************************************)
(* Bounds of the exploration.                                              *)
(***************************************************************************)
MaxObj == 3        \* Animation objects constructed in one behaviour
MaxOps == 4        \* service requests and outside changes in one behaviour
MaxConc == 2       \* service requests in flight at the same time
MaxTicks == 1      \* wake-ups from the sleep of a loop in one behaviour
MaxMireds == 520   \* _convert_mireds_to_kelvin is called with -MaxBelow..MaxMireds
MaxBelow == 3
MaxDraw == 2

(***************************************************************************)
(* The inputs: entity ids, names, priorities, light states.                *)
(***************************************************************************)
Lights == {"l1", "l2"}
LightLists == {<<"l1">>, <<"l1", "l2">>}
Names == {"a", "b", "c"}
Priorities == {10, 20, 30}
LowPriorities == {10, 20}

\* a key a request does not carry, and an entity id that is malformed
Absent == "-"
BadId == "?"

\* the switch entities of the host; sw_a carries the friendly name "a",
\* sw_x carries none, any other switch id names no entity
Switches == {"sw_a", "sw_x"}
FriendlyNames == [sw_a |-> "a"]

None == -1
EmptyMap == [x \in {} |-> None]

Put(f, k, v) == [x \in (DOMAIN f) \cup {k} |-> IF x = k THEN v ELSE f[x]]
Del(f, k) == [x \in (DOMAIN f) \ {k} |-> f[x]]
Get(f, k) == IF k \in DOMAIN f THEN f[k] ELSE None
Range(s) == {s[i] : i \in 1..Len(s)}

\* a light state as the state machine of the host reports it
StOff == [state |-> "off", attributes |-> EmptyMap]
StOn120 == [state |-> "on",
            attributes |-> [brightness |-> 120, color_mode |-> "xy", xy_color |-> 7]]
StOn200 == [state |-> "on",
            attributes |-> [brightness |-> 200, rgb_color |-> 9]]
LightStates == {StOff, StOn120, StOn200}

VARIABLES
    obj,               \* the Animation objects constructed so far, by identity
    animations,        \* Animations.animations: name -> object
    states,            \* Animations.states: light -> stored State
    light_animations,  \* Animations._light_animations: light -> list of objects
    light_owner,       \* Animations.light_owner: light -> object
    listener,          \* lights covered by _external_light_listener ({}: None)
    hass_states,       \* hass.states: light -> State
    handlers,          \* the service requests in flight
    events,            \* state-change events delivered, handler not yet run
    scope,             \* the inputs the behaviour draws from (fixed by Init)
    log,               \* what the last step did: calls, releases, returns
    nops, nticks,
    call_mireds,       \* the argument of a call of _convert_mireds_to_kelvin
    call_kelvin,       \* what the call gave: a value, or an error
    turn               \* the coroutine that ran in the last step ("off": not kept)

vars == <<obj, animations, states, light_animations, light_owner, listener,
          hass_states, handlers, events, scope, log, nops, nticks, call_mireds,
          call_kelvin, turn>>

(***************************************************************************)
(* The manager's tables and the objects, gathered so that the synchronous  *)
(* part of a coroutine can be written as a function from world to world.   *)
(***************************************************************************)
\* what the random generator answers when nothing asks it
NoDraw == [coin |-> 1, pick |-> 1, u |-> 0]

World == [obj |-> obj, animations |-> animations, states |-> states,
          light_animations |-> light_animations, light_owner |-> light_owner,
          listener |-> listener, hass |-> hass_states, log |-> log,
          fails |-> FALSE, draw |-> NoDraw]

Ev(ev, a, l, d) == [ev |-> ev, a |-> a, l |-> l, d |-> d]
Emit(W, e) == [W EXCEPT !.log = Append(@, e)]

ListenerNone == [on |-> FALSE, lights |-> {}]

\* the first occurrence of x removed from s (list.remove)
RECURSIVE RemoveFirst(_, _)
RemoveFirst(s, x) ==
    IF s = <<>> THEN <<>>
    ELSE IF Head(s) = x THEN Tail(s)
    ELSE <<Head(s)>> \o RemoveFirst(Tail(s), x)

\* Animations.build_attributes_from_state
ExclusiveProperties ==
    <<"rgb_color", "rgbw_color", "rgbww_color", "xy_color", "hs_color",
      "color_temp", "color_temp_kelvin">>

ColorModeAttr ==
    [xy |-> "xy_color", color_temp |-> "color_temp", hs |-> "hs_color",
     rgb |-> "rgb_color", rgbw |-> "rgbw_color", rgbww |-> "rgbww_color"]

RECURSIVE FirstTruthy(_, _)
FirstTruthy(attrs, props) ==
    IF props = <<>> THEN EmptyMap
    ELSE IF Get(attrs, Head(props)) # None /\ Get(attrs, Head(props)) # 0
         THEN [x \in {Head(props)} |-> attrs[Head(props)]]
         ELSE FirstTruthy(attrs, Tail(props))

build_attributes_from_state(entity_id, state) ==
    LET base == [entity_id |-> entity_id,
                 brightness |-> Get(state.attributes, "brightness"),
                 transition |-> 1]
        attrs == state.attributes
        extra ==
            IF "color_mode" \in DOMAIN attrs
            THEN IF attrs["color_mode"] \in DOMAIN ColorModeAttr
                 THEN LET k == ColorModeAttr[attrs["color_mode"]]
                      IN  [x \in {k} |-> Get(attrs, k)]
                 ELSE IF attrs["color_mode"] = "white"
                      THEN [x \in {"color_mode"} |-> "white"]
                      ELSE EmptyMap
            ELSE FirstTruthy(attrs, ExclusiveProperties)
    IN  [x \in (DOMAIN base) \cup (DOMAIN extra) |->
            IF x \in DOMAIN extra THEN extra[x] ELSE base[x]]

\* Animations.refresh_listener
refresh_listener(W) ==
    [W EXCEPT !.listener =
        IF Cardinality(DOMAIN W.states) > 0
        THEN [on |-> TRUE, lights |-> DOMAIN W.states]
        ELSE ListenerNone]

\* a store_state that takes a new snapshot over the one it has
store_state_always(W, light) ==
    [W EXCEPT !.states = Put(@, light, W.hass[light])]

\* Animations.store_state
store_state(W, light) ==
    IF light \notin DOMAIN W.states
    THEN [W EXCEPT !.states = Put(@, light, W.hass[light])]
    ELSE W

\* Animations.store_states
RECURSIVE store_states_loop(_, _)
store_states_loop(W, lights) ==
    IF lights = <<>> THEN W
    ELSE store_states_loop(store_state(W, Head(lights)), Tail(lights))

store_states(W, lights) == refresh_listener(store_states_loop(W, lights))

\* Animations.refresh_animation_for_light; 0 stands for None
RECURSIVE refresh_scan(_, _, _, _, _)
refresh_scan(W, entity_id, list, selected, selected_priority) ==
    IF list = <<>> THEN selected
    ELSE LET animation == Head(list)
         IN  IF entity_id \in Range(W.obj[animation].lights)
                /\ W.obj[animation].priority > selected_priority
             THEN refresh_scan(W, entity_id, Tail(list), animation,
                               W.obj[animation].priority)
             ELSE refresh_scan(W, entity_id, Tail(list), selected, selected_priority)

refresh_animation_for_light(W, entity_id) ==
    refresh_scan(W, entity_id, W.light_animations[entity_id], 0, (-2147483647) - 1)

(***************************************************************************)
(* A coroutine run synchronously up to its next suspension gives           *)
(* [w |-> the world it leaves, out |-> how it stopped]:                    *)
(*   "done"  it returned, "await" it is suspended in a light service call, *)
(*   "error" it raised.                                                    *)
(***************************************************************************)
Ret(W, out) == [w |-> W, out |-> out]

\* hass.services.async_call: the call is handed to the host, the caller is
\* suspended in it; the host carries it out or raises (W.fails)
async_call(W, a, service, entity_id, attrs, via) ==
    LET W1 == Emit(W, Ev("call", a, entity_id,
                         [service |-> service, attrs |-> attrs, via |-> via]))
    IN  IF W.fails THEN Emit(W1, Ev("raised", a, entity_id, via)) ELSE W1

\* a call without the try: what the host raises is raised in the caller
safe_call_unguarded(W, a, service, entity_id, attrs, via) ==
    LET W1 == async_call(W, a, service, entity_id, attrs, via)
    IN  IF W.fails THEN Emit(W1, Ev("error", a, entity_id, "service raised")) ELSE W1

\* safe_call: an exception of the call is logged as a warning and dropped
safe_call(W, a, service, entity_id, attrs, via) ==
    LET W1 == async_call(W, a, service, entity_id, attrs, via)
    IN  IF W.fails THEN Emit(W1, Ev("warning", a, entity_id, via)) ELSE W1

\* Animations.release_light, lines 1117-1118: del self.states[entity_id]
release_light_finish(W, animation, entity_id) ==
    IF entity_id \notin DOMAIN W.states
    THEN Ret(Emit(W, Ev("error", animation, entity_id, "KeyError states")), "error")
    ELSE Ret(Emit([W EXCEPT !.states = Del(@, entity_id)],
                  Ev("del_state", animation, entity_id, "ok")), "done")

\* a replay of the snapshot that turns the light off whenever it was off
release_light_restore_off(W, animation, entity_id, skip_restore) ==
    IF W.obj[animation].restore /\ ~skip_restore
    THEN IF entity_id \notin DOMAIN W.states
         THEN Ret(Emit(W, Ev("error", animation, entity_id, "KeyError states")), "error")
         ELSE IF W.states[entity_id].state = "on"
              THEN Ret(safe_call(W, animation, "turn_on", entity_id,
                          build_attributes_from_state(entity_id, W.states[entity_id]),
                          "restore"), "await")
              ELSE Ret(safe_call(W, animation, "turn_off", entity_id,
                          [entity_id |-> entity_id], "restore"), "await")
    ELSE release_light_finish(W, animation, entity_id)

\* Animations.release_light, lines 1106-1116: the replay of the snapshot
release_light_restore(W, animation, entity_id, skip_restore) ==
    IF W.obj[animation].restore /\ ~skip_restore
    THEN IF entity_id \notin DOMAIN W.states
         THEN Ret(Emit(W, Ev("error", animation, entity_id, "KeyError states")), "error")
         ELSE LET previous_state == W.states[entity_id]
              IN  IF previous_state.state = "on"
                  THEN Ret(safe_call(W, animation, "turn_on", entity_id,
                              build_attributes_from_state(entity_id, previous_state),
                              "restore"), "await")
                  ELSE IF W.obj[animation].restore_power
                  THEN Ret(safe_call(W, animation, "turn_off", entity_id,
                              [entity_id |-> entity_id], "restore"), "await")
                  ELSE release_light_finish(W, animation, entity_id)
    ELSE release_light_finish(W, animation, entity_id)

\* a release that treats every animation as the owner
ReleasedByAnyone(W, animation, entity_id) == TRUE

\* the ownership test of release_light, line 1091
ReleasedByOwner(W, animation, entity_id) == W.light_owner[entity_id] = animation

\* Animations.release_light up to its first suspension; obj[a].released
\* records that release_light was called for the animation and the light
release_light(V, animation, entity_id, skip_ownership, skip_restore) ==
    LET W == [V EXCEPT !.obj[animation].released = @ \cup {entity_id}] IN
    IF entity_id \notin DOMAIN W.light_animations
    THEN Ret(Emit(W, Ev("error", animation, entity_id, "KeyError light_animations")),
             "error")
    ELSE IF animation \notin Range(W.light_animations[entity_id])
    THEN Ret(Emit(W, Ev("error", animation, entity_id, "ValueError remove")), "error")
    ELSE
    LET W1 == [W EXCEPT !.light_animations[entity_id] = RemoveFirst(@, animation)]
        snap == IF entity_id \in DOMAIN W.states THEN W.states[entity_id] ELSE StOff
        W2 == Emit(W1, Ev("release_light", animation, entity_id,
                  [owner |-> W.light_owner[entity_id],
                   has_snap |-> entity_id \in DOMAIN W.states,
                   snap |-> snap,
                   skip_ownership |-> skip_ownership,
                   skip_restore |-> skip_restore]))
    IN  IF ~ReleasedByOwner(W1, animation, entity_id)
        THEN Ret(W2, "done")
        ELSE LET light_owner_ ==
                    IF Len(W1.light_animations[entity_id]) > 0 /\ ~skip_ownership
                    THEN refresh_animation_for_light(W1, entity_id)
                    ELSE 0
             IN  IF light_owner_ # 0
                 THEN Ret(Emit([W2 EXCEPT !.light_owner[entity_id] = light_owner_],
                               Ev("handoff", animation, entity_id, light_owner_)),
                          "done")
                 ELSE release_light_restore(W2, animation, entity_id, skip_restore)

\* Animations.release_animation
release_animation(W, animation) ==
    IF W.obj[animation].name \notin DOMAIN W.animations
    THEN Ret(Emit(W, Ev("error", animation, "-", "KeyError animations")), "error")
    ELSE Ret(refresh_listener(
                Emit([W EXCEPT !.animations = Del(@, W.obj[animation].name)],
                     Ev("release_animation", animation, "-",
                        W.animations[W.obj[animation].name]))), "done")

\* Animation.release from the idx-th active light on; obj[a].rel is the
\* position of the for loop over _active_lights while it is suspended
RECURSIVE release(_, _, _)
release(W, a, idx) ==
    IF idx <= Len(W.obj[a].active)
    THEN LET r == release_light(W, a, W.obj[a].active[idx], FALSE, FALSE)
         IN  IF r.out = "done" THEN release(r.w, a, idx + 1)
             ELSE IF r.out = "await"
                  THEN Ret([r.w EXCEPT !.obj[a].rel = idx,
                                       !.obj[a].relLight = W.obj[a].active[idx]],
                           "await")
                  ELSE r
    ELSE LET r == release_animation(W, a)
         IN  IF r.out = "error" THEN r
             ELSE Ret(Emit([r.w EXCEPT !.obj[a].rel = 0],
                           Ev("fire", a, "-", "stopped")), "done")

\* Animation.release resumed after the restore call of the rel-th light
release_resume(W, a) ==
    LET idx == W.obj[a].rel
        r == release_light_finish(W, a, W.obj[a].relLight)
    IN  IF r.out = "error" THEN r ELSE release(r.w, a, idx + 1)

(***************************************************************************)
(* Animation objects.  task is the state of the asyncio task of animate(): *)
(*   "none"     no task was created (self._task is None)                   *)
(*   "created"  created, its first step has not run                        *)
(*   "gather"   suspended in the gather of update_lights                   *)
(*   "sleep"    suspended in asyncio.sleep                                 *)
(*   "restore"  in release(), suspended in a restore call                  *)
(*   "finished" / "cancelled" / "failed"   done                            *)
(* cancel: Task.cancel() was called and has not been delivered yet.        *)
(* pend: the update_light coroutines of the current gather not yet run.    *)
(* released: the lights release_light was called for (history).            *)
(***************************************************************************)
TaskDone(t) == t \in {"finished", "cancelled", "failed"}

\* Animation.add_light applied to the configured lights (all entities exist)
add_light(active, entity_id, ignore_off, hass) ==
    IF entity_id \notin Range(active) /\ (hass[entity_id].state # "off" \/ ignore_off)
    THEN Append(active, entity_id)
    ELSE active

RECURSIVE add_lights_loop(_, _, _, _)
add_lights_loop(active, ids, ignore_off, hass) ==
    IF ids = <<>> THEN active
    ELSE add_lights_loop(add_light(active, Head(ids), ignore_off, hass),
                         Tail(ids), ignore_off, hass)

\* the bounds of a colour temperature in kelvin: animations.py imports them
\* from .const, which does not define them in this tree; the values here
\* stand for a pair MIN_KELVIN < MAX_KELVIN
MIN_KELVIN == 2000
MAX_KELVIN == 6500

\* a conversion that leaves out the clamp
convert_mireds_to_kelvin_unclamped(mireds) ==
    IF mireds <= 0 THEN [out |-> "error", value |-> None]
    ELSE [out |-> "value", value |-> 1000000 \div mireds]

\* _convert_mireds_to_kelvin: int(1000000 / mireds) truncates
convert_mireds_to_kelvin(mireds) ==
    IF mireds <= 0 THEN [out |-> "error", value |-> None]
    ELSE LET kelvin == 1000000 \div mireds
         IN  [out |-> "value",
              value |-> IF kelvin < MIN_KELVIN THEN MIN_KELVIN
                        ELSE IF kelvin > MAX_KELVIN THEN MAX_KELVIN
                        ELSE kelvin]

\* Animation._change_mired_colors_to_kelvin: a colour in mireds becomes a
\* colour in kelvin, or is taken off the list when its conversion raises
RECURSIVE change_mired_colors_to_kelvin(_)
change_mired_colors_to_kelvin(colors) ==
    IF colors = <<>> THEN <<>>
    ELSE LET color == Head(colors)
             rest == change_mired_colors_to_kelvin(Tail(colors))
         IN  IF color.color_type = "color_temp"
             THEN LET r == convert_mireds_to_kelvin(color.color)
                  IN  IF r.out = "value"
                      THEN <<[color EXCEPT !.color = r.value,
                                           !.color_type = "color_temp_kelvin"]>> \o rest
                      ELSE rest
             ELSE <<color>> \o rest

\* the weights Animation.__init__ collects, lines 326-328
Weights(colors) == [i \in 1..Len(colors) |-> colors[i].weight]

\* Animation.__init__
NewAnimation(W, config) ==
    LET colors == change_mired_colors_to_kelvin(config.colors)
        a == [name |-> config.name, lights |-> config.lights,
              colors |-> colors, weights |-> Weights(colors),
              active |-> add_lights_loop(<<>>, config.lights, config.ignore_off, W.hass),
              priority |-> config.priority, restore |-> config.restore,
              restore_power |-> config.restore_power,
              ignore_off |-> config.ignore_off,
              change_frequency |-> config.change_frequency,
              change_amount |-> config.change_amount,
              animate_brightness |-> config.animate_brightness,
              animate_color |-> config.animate_color,
              global_brightness |-> config.brightness,
              sequence |-> config.change_sequence,
              current_color_index |-> 0, light_status |-> EmptyMap,
              task |-> "none", cancel |-> FALSE, exc |-> "none",
              rel |-> 0, relLight |-> "-", pend |-> {}, hung |-> {},
              released |-> {}]
    IN  store_states([W EXCEPT !.obj = Append(@, a)], a.active)

\* a rule that takes a light only from a strictly lower priority
TakesOwnershipStrict(W, light, priority) ==
    \/ light \notin DOMAIN W.light_owner
    \/ W.obj[W.light_owner[light]].priority < priority

\* the ownership rule of Animations.start, lines 1033-1036
TakesOwnership(W, light, priority) ==
    \/ light \notin DOMAIN W.light_owner
    \/ W.obj[W.light_owner[light]].priority <= priority

\* Animations.start, lines 1032-1040, and add_lights_to_animation, 1155-1163
RECURSIVE claim_lights(_, _, _)
claim_lights(W, animation, lights) ==
    IF lights = <<>> THEN W
    ELSE LET light == Head(lights)
             W1 == IF TakesOwnership(W, light, W.obj[animation].priority)
                   THEN [W EXCEPT !.light_owner = Put(@, light, animation)]
                   ELSE W
             W2 == [W1 EXCEPT !.light_animations =
                        Put(@, light,
                            Append(IF light \in DOMAIN @ THEN @[light] ELSE <<>>,
                                   animation))]
         IN  claim_lights(W2, animation, Tail(lights))

\* Task.cancel(): a done task is left alone; the children of a gather the
\* task is suspended in are cancelled with it and never run
Cancel(W, a) ==
    IF W.obj[a].task = "none" \/ TaskDone(W.obj[a].task) THEN W
    ELSE [W EXCEPT !.obj[a].cancel = TRUE, !.obj[a].pend = {}, !.obj[a].hung = {}]

\* Animation.stop up to the await of the task
AnimationStop(W, a) ==
    IF W.obj[a].task = "none" THEN Ret(W, "done")
    ELSE LET W1 == Emit(Cancel(W, a), Ev("cancel", a, "-", W.obj[a].task))
         IN  IF TaskDone(W.obj[a].task)
             THEN Ret(W1, IF W.obj[a].task = "failed" THEN "error" ELSE "done")
             ELSE Ret(W1, "await")

(***************************************************************************)
(* Service requests.  A request in flight is a record: the operation, the  *)
(* await it is suspended in (pc), the object it waits for or started (a),  *)
(* its data (req), and for remove_lights the release_light coroutines of   *)
(* its gather (kids) and the animations still to be looked at (affected).  *)
(***************************************************************************)
Idle == [op |-> "idle", pc |-> "-", a |-> 0, req |-> "-", kids |-> {}, affected |-> <<>>]
Suspended(op, pc, a, req) ==
    [op |-> op, pc |-> pc, a |-> a, req |-> req, kids |-> {}, affected |-> <<>>]

HRet(W, hr) == [w |-> W, hr |-> hr]
Return(W, op, a, result, req) ==
    HRet(Emit(W, Ev("return", a, "-", [op |-> op, result |-> result, req |-> req])), Idle)

\* change_amount: "all", a number, or a list of two bounds
AmountAll == [kind |-> "all", n |-> 0, hi |-> 0]
AmountOf(k) == [kind |-> "int", n |-> k, hi |-> k]
AmountBetween(lo, hi) == [kind |-> "range", n |-> lo, hi |-> hi]

\* a brightness setting: a number, or a list of two bounds
Single(v) == [list |-> FALSE, lo |-> v, hi |-> v]
Between(lo, hi) == [list |-> TRUE, lo |-> lo, hi |-> hi]

\* colours of a start request: an rgb colour (its value is opaque here) and
\* a colour temperature in mireds; the group schema gives each a weight
\* (COLOR_GROUP_SCHEMA gives it a brightness of 255 and one_change_per_tick
\* false as well)
RgbColor ==
    [color_type |-> "rgb_color", color |-> 9, weight |-> 10,
     brightness |-> Single(255), one_change_per_tick |-> FALSE]
MiredsColor(m) ==
    [color_type |-> "color_temp", color |-> m, weight |-> 5,
     brightness |-> Single(255), one_change_per_tick |-> FALSE]
\* a second rgb colour, with the given brightness
RgbOther(brightness, one_change) ==
    [color_type |-> "rgb_color", color |-> 4, weight |-> 10,
     brightness |-> brightness, one_change_per_tick |-> one_change]

\* the options of a start request beside name, lights and priority, as the
\* validated request carries them (START_SERVICE_CONFIG fills the defaults)
BaseOptions ==
    [restore |-> TRUE, restore_power |-> TRUE, ignore_off |-> TRUE,
     change_frequency |-> 1, change_amount |-> AmountAll, colors |-> <<RgbColor>>,
     brightness |-> Single(255), animate_brightness |-> TRUE,
     animate_color |-> TRUE, change_sequence |-> FALSE]

(***************************************************************************)
(* The exploration is the union of these scopes.  A scope fixes what the   *)
(* environment of a behaviour may do: the options every start request      *)
(* carries, the priorities, light lists and number of names it draws from, *)
(* the initial state of light l1, the kinds of input, whether an input     *)
(* may arrive while something is in flight (quiet: it may not), how many   *)
(* requests may be in flight at once, and how many inputs and objects      *)
(* there may be, and the forms of the requests (plain: well formed, the   *)
(* animation given by name).                                               *)
(***************************************************************************)
AllKinds == {"start", "stop", "remove", "add", "change"}

\* three animations compete for one light under every order of priorities
PriorityScope ==
    [options |-> BaseOptions, priorities |-> Priorities, lists |-> {<<"l1">>},
     names |-> 3, l1 |-> StOn120, kinds |-> {"start", "stop"}, quiet |-> TRUE,
     conc |-> 1, ops |-> MaxOps, objs |-> MaxObj, forms |-> "plain", faults |-> FALSE]

\* every kind of input, one after the other
QuietScope(opt, l1) ==
    [options |-> opt, priorities |-> LowPriorities, lists |-> LightLists,
     names |-> 2, l1 |-> l1, kinds |-> AllKinds, quiet |-> TRUE,
     conc |-> 1, ops |-> MaxOps - 1, objs |-> MaxObj - 1, forms |-> "plain", faults |-> FALSE]

\* one animation of two lights, lights removed while it is stopped
RaceScope ==
    [options |-> BaseOptions, priorities |-> {10}, lists |-> LightLists,
     names |-> 1, l1 |-> StOn120, kinds |-> {"start", "stop", "remove"},
     quiet |-> FALSE, conc |-> MaxConc, ops |-> MaxOps - 1, objs |-> MaxObj - 2,
     forms |-> "plain", faults |-> FALSE]

\* start requests with the given colours
ColorScope(colors) ==
    [options |-> [BaseOptions EXCEPT !.colors = colors], priorities |-> {10},
     lists |-> {<<"l1">>}, names |-> 2, l1 |-> StOn120, kinds |-> {"start", "stop"},
     quiet |-> TRUE, conc |-> 1, ops |-> MaxOps - 1, objs |-> MaxObj - 1,
     forms |-> "plain", faults |-> FALSE]

\* lights added to a running animation that has them already, a second
\* animation of the same light, and a stop
AddAgainScope ==
    [options |-> BaseOptions, priorities |-> LowPriorities, lists |-> {<<"l1">>},
     names |-> 2, l1 |-> StOn120, kinds |-> {"start", "stop", "add"}, quiet |-> TRUE,
     conc |-> 1, ops |-> MaxOps, objs |-> MaxObj - 1, forms |-> "plain", faults |-> FALSE]

\* the same with a light that is off and changes from outside
AddAgainOffScope ==
    [options |-> BaseOptions, priorities |-> {10}, lists |-> {<<"l1">>},
     names |-> 1, l1 |-> StOff, kinds |-> {"start", "stop", "add", "change"},
     quiet |-> TRUE, conc |-> 1, ops |-> MaxOps, objs |-> MaxObj - 2,
     forms |-> "plain", faults |-> FALSE]

\* an animation without colours (the default of the schema) of a light that
\* is off, turned on from outside and added to the animation
NoColorsOffScope ==
    [options |-> [BaseOptions EXCEPT !.colors = <<>>, !.ignore_off = FALSE],
     priorities |-> {10}, lists |-> {<<"l1">>}, names |-> 1, l1 |-> StOff,
     kinds |-> {"start", "stop", "add", "change"}, quiet |-> TRUE, conc |-> 1,
     ops |-> MaxOps - 1, objs |-> MaxObj - 2, forms |-> "plain", faults |-> FALSE]

\* one animation with the given options, started and ticking
TickScope(opt, l1) ==
    [options |-> opt, priorities |-> {10}, lists |-> LightLists, names |-> 1,
     l1 |-> l1, kinds |-> {"start", "stop"}, quiet |-> TRUE, conc |-> 1,
     ops |-> MaxOps - 2, objs |-> MaxObj - 2, forms |-> "plain", faults |-> FALSE]

\* two colours, the second with a brightness of its own
TwoColors == <<RgbColor, RgbOther(Between(100, 102), FALSE)>>

\* the options of the scopes of ticks: numbers of lights to change, colours
\* in sequence, and the settings of colour and brightness
TickOptions ==
    {[BaseOptions EXCEPT !.change_amount = AmountBetween(0, 2)],
     [BaseOptions EXCEPT !.change_amount = AmountOf(0)],
     [BaseOptions EXCEPT !.change_amount = AmountOf(2)],
     [BaseOptions EXCEPT !.change_sequence = TRUE, !.colors = TwoColors],
     [BaseOptions EXCEPT !.change_sequence = TRUE, !.colors = TwoColors,
                         !.animate_color = FALSE],
     [BaseOptions EXCEPT !.change_sequence = TRUE,
                         !.colors = <<RgbColor, RgbOther(Single(100), TRUE)>>],
     [BaseOptions EXCEPT !.colors = TwoColors],
     [BaseOptions EXCEPT !.colors = <<RgbOther(Between(100, 102), TRUE)>>],
     [BaseOptions EXCEPT !.colors = <<RgbOther(Single(100), FALSE)>>,
                         !.brightness = Single(50)],
     [BaseOptions EXCEPT !.colors = <<RgbOther(Single(100), FALSE)>>,
                         !.brightness = Single(50), !.animate_brightness = FALSE,
                         !.animate_color = FALSE],
     [BaseOptions EXCEPT !.colors = <<RgbOther(Single(100), FALSE)>>,
                         !.brightness = Between(50, 51), !.animate_brightness = FALSE,
                         !.animate_color = FALSE],
     [BaseOptions EXCEPT !.colors = TwoColors,
                         !.brightness = Between(50, 51), !.animate_color = FALSE]}

\* requests of every form: keys left out, malformed ids, an animation named
\* by its switch
FormsScope ==
    [options |-> BaseOptions, priorities |-> {10}, lists |-> {<<"l1">>},
     names |-> 2, l1 |-> StOn120, kinds |-> {"start", "stop", "remove", "add"},
     quiet |-> TRUE, conc |-> 1, ops |-> MaxOps - 1, objs |-> MaxObj - 1,
     forms |-> "any", faults |-> FALSE]

\* light service calls that the host may fail
FaultScope ==
    [options |-> BaseOptions, priorities |-> {10}, lists |-> {<<"l1", "l2">>},
     names |-> 1, l1 |-> StOn120, kinds |-> {"start", "stop", "remove"},
     quiet |-> TRUE, conc |-> 1, ops |-> MaxOps - 1, objs |-> MaxObj - 1,
     forms |-> "plain", faults |-> TRUE]

\* inputs arrive at any time, requests overlap
InterleavedScope ==
    [options |-> BaseOptions, priorities |-> LowPriorities, lists |-> {<<"l1">>},
     names |-> 2, l1 |-> StOn120, kinds |-> AllKinds,
     quiet |-> FALSE, conc |-> MaxConc, ops |-> MaxOps - 1, objs |-> MaxObj - 1,
     forms |-> "plain", faults |-> FALSE]

Scopes ==
    {PriorityScope,
     QuietScope(BaseOptions, StOn120),
     QuietScope(BaseOptions, StOff),
     QuietScope([BaseOptions EXCEPT !.restore = FALSE], StOn120),
     QuietScope([BaseOptions EXCEPT !.restore_power = FALSE], StOff),
     QuietScope([BaseOptions EXCEPT !.ignore_off = FALSE], StOff),
     QuietScope([BaseOptions EXCEPT !.change_frequency = 0], StOn120),
     QuietScope([BaseOptions EXCEPT !.change_frequency = None], StOn120),
     QuietScope([BaseOptions EXCEPT !.change_amount = AmountOf(1)], StOn120),
     InterleavedScope,
     FormsScope,
     FaultScope,
     RaceScope,
     AddAgainScope,
     AddAgainOffScope,
     ColorScope(<<MiredsColor(0), RgbColor>>),
     ColorScope(<<RgbColor, MiredsColor(370), MiredsColor(100)>>),
     ColorScope(<<>>),
     NoColorsOffScope}
    \cup {TickScope(opt, StOn120) : opt \in TickOptions}
    \cup {TickScope([BaseOptions EXCEPT !.change_sequence = TRUE, !.colors = TwoColors,
                                        !.ignore_off = FALSE], StOff)}

StartRequest(name, lights, priority, opt) ==
    [name |-> name, lights |-> lights, priority |-> priority,
     restore |-> opt.restore, restore_power |-> opt.restore_power,
     ignore_off |-> opt.ignore_off, change_frequency |-> opt.change_frequency,
     change_amount |-> opt.change_amount, colors |-> opt.colors,
     brightness |-> opt.brightness, animate_brightness |-> opt.animate_brightness,
     animate_color |-> opt.animate_color, change_sequence |-> opt.change_sequence]

\* Animation.start after the gather of the initial updates
StartAfterInit(W, req, n) ==
    IF W.obj[n].change_frequency = 0
    THEN LET r == release(W, n, 1)
         IN  IF r.out = "await" THEN HRet(r.w, Suspended("start", "await_release", n, req))
             ELSE Return(r.w, "start", n, IF r.out = "done" THEN "ok" ELSE "error", req)
    ELSE IF W.obj[n].task = "none"
         THEN Return(Emit([W EXCEPT !.obj[n].task = "created"],
                          Ev("fire", n, "-", "started")), "start", n, "ok", req)
         ELSE Return(W, "start", n, "ok", req)

\* Animations.start from line 1030 on, up to the gather of Animation.start;
\* the schema gives change_frequency no default, and Animation.__init__ reads
\* config[CONF_CHANGE_FREQUENCY] (line 310) before it does anything else
\* that can be seen: a request without the key (None) raises KeyError there
StartBody(W, req) ==
    IF req.change_frequency = None
    THEN Return(Emit(W, Ev("error", 0, "-", "KeyError change_frequency")),
                "start", 0, "error", req)
    ELSE
    LET W1 == NewAnimation(W, req)
        n == Len(W1.obj)
        W2 == claim_lights(W1, n, req.lights)
        W3 == Emit([W2 EXCEPT !.animations = Put(@, req.name, n)],
                   Ev("register", n, "-", req.name))
    IN  IF W3.obj[n].active = <<>>
        THEN StartAfterInit(W3, req, n)
        ELSE HRet([W3 EXCEPT !.obj[n].pend = Range(W3.obj[n].active)],
                  Suspended("start", "await_init", n, req))

\* cv.entity_ids: every element is a well-formed entity id
EntityIdsOk(lights) == \A i \in 1..Len(lights) : lights[i] # BadId

\* the schema of one colour: mireds are at least 1 (vol.Range(min=1)),
\* kelvin is a positive_int
ColorOk(color) ==
    /\ color.color_type = "color_temp" => color.color >= 1
    /\ color.color_type = "color_temp_kelvin" => color.color >= 0

\* START_SERVICE_SCHEMA: name and lights are required, every colour matches
\* one of the colour schemas
StartSchemaOk(data) ==
    /\ data.name # Absent
    /\ EntityIdsOk(data.lights)
    /\ \A i \in 1..Len(data.colors) : ColorOk(data.colors[i])

\* a schema that accepts a stop request without a name
StopSchemaOk_any(data) == TRUE

\* STOP_SERVICE_SCHEMA: name is required
StopSchemaOk(data) == data.name # Absent

\* REMOVE_LIGHTS_SERVICE_SCHEMA and ADD_LIGHTS_TO_ANIMATION_SERVICE_SCHEMA
LightsSchemaOk(data) == EntityIdsOk(data.lights)

\* a handler raises before it has done anything
Refuse(W, op, req, error) ==
    Return(Emit(W, Ev("error", 0, "-", error)), op, 0, "error", req)

\* Animations.start up to its first suspension
ManagerStart(W, req) ==
    IF ~StartSchemaOk(req) THEN Refuse(W, "start", req, "IntegrationError schema")
    ELSE IF req.name \in DOMAIN W.animations
    THEN LET old == W.animations[req.name]
             r == AnimationStop(W, old)
         IN  IF r.out = "await" THEN HRet(r.w, Suspended("start", "await_stop", old, req))
             ELSE IF r.out = "error" THEN Return(r.w, "start", 0, "error", req)
             ELSE StartBody(r.w, req)
    ELSE StartBody(W, req)

\* Animations.stop up to its first suspension
ManagerStop(W, req) ==
    IF ~StopSchemaOk(req) THEN Refuse(W, "stop", req, "IntegrationError schema")
    ELSE IF req.name \in DOMAIN W.animations
    THEN LET a == W.animations[req.name]
             r == AnimationStop(W, a)
             called == [req EXCEPT !.was = W.obj[a].task]
         IN  IF r.out = "await" THEN HRet(r.w, Suspended("stop", "await_stop", a, called))
             ELSE Return(r.w, "stop", a, IF r.out = "done" THEN "ok" ELSE "error", called)
    ELSE Return(W, "stop", 0, "ok", req)

(***************************************************************************)
(* The task of Animation.animate.                                          *)
(***************************************************************************)
FinalState(exc) ==
    IF exc = "none" THEN "finished" ELSE IF exc = "cancelled" THEN "cancelled" ELSE "failed"

\* what release() in the finally clause of animate leaves of the task
AfterRelease(r, a, exc) ==
    IF r.out = "await"
    THEN [r.w EXCEPT !.obj[a].task = "restore", !.obj[a].exc = exc]
    ELSE IF r.out = "done"
    THEN [r.w EXCEPT !.obj[a].task = FinalState(exc), !.obj[a].exc = "none"]
    ELSE [r.w EXCEPT !.obj[a].task = "failed", !.obj[a].exc = "none"]

\* the finally clause of animate, lines 429-438
Finally(W, a, exc) == AfterRelease(release(W, a, 1), a, exc)

\* Animation.pick_lights on the sample the random generator drew
pick_lights(W, a, sample) ==
    IF ~W.obj[a].ignore_off
    THEN {l \in sample : W.hass[l].state # "off"}
    ELSE sample

\* Animation.get_static_or_random of a change amount, on the number u the
\* random generator drew: randrange(value[0], value[1] + 1) for a list
AmountOrRandom(amount, u) == amount.n + (u % (amount.hi - amount.n + 1))

\* the number of lights update_lights asks for, lines 853-861
ChangeAmount(W, a) ==
    IF W.obj[a].change_amount.kind = "all" THEN Len(W.obj[a].active)
    ELSE AmountOrRandom(W.obj[a].change_amount, W.draw.u)

\* an index that is advanced without wrapping around
next_color_index_unwrapped(o) ==
    IF o.sequence THEN o.current_color_index + 1 ELSE o.current_color_index

\* Animation.update_lights, lines 864-867: the index of the colour of the tick
next_color_index(o) ==
    LET i == IF o.sequence THEN o.current_color_index + 1 ELSE o.current_color_index
    IN  IF i >= Len(o.colors) THEN 0 ELSE i

\* Animation.update_lights, line 863: the lights pick_lights returns
lights_to_change(W, a, sample) == pick_lights(W, a, sample)

\* Animation.update_lights up to its gather, then the sleep of animate
update_lights(W, a, sample) ==
    LET n == ChangeAmount(W, a)
        W0 == Emit(W, Ev("amount", a, "-", n))
    IN  IF W.obj[a].change_amount.kind # "all" /\ n <= 0
        THEN [W0 EXCEPT !.obj[a].task = "sleep"]
        ELSE IF n > Len(W.obj[a].active)
        THEN Finally(Emit(W0, Ev("error", a, "-", "ValueError sample")), a, "error")
        ELSE LET lights == lights_to_change(W, a, sample)
                 W1 == Emit([W0 EXCEPT !.obj[a].current_color_index =
                                          next_color_index(W.obj[a])],
                            Ev("tick", a, "-", lights))
             IN  IF lights = {}
                 THEN [W1 EXCEPT !.obj[a].task = "sleep"]
                 ELSE [W1 EXCEPT !.obj[a].task = "gather",
                                 !.obj[a].pend = lights]

\* the samples random.sample may draw
Samples(W, a) ==
    LET n == ChangeAmount(W, a)
    IN  IF n > Len(W.obj[a].active) \/ n <= 0 THEN {{}}
        ELSE {S \in SUBSET Range(W.obj[a].active) : Cardinality(S) = n}

\* the loop condition of animate, line 425 (the running task is not done)
LoopGoesOn(W, a) == W.obj[a].name \in DOMAIN W.animations

\* one run of the task of animate from one suspension to the next
animate(W, a, sample) ==
    LET o == W.obj[a]
        W0 == [W EXCEPT !.obj[a].cancel = FALSE]
    IN  IF o.cancel
        THEN IF o.task = "created" \/ o.task = "restore"
             THEN Emit([W0 EXCEPT !.obj[a].task = "cancelled", !.obj[a].exc = "none"],
                       Ev("task_cancelled", a, "-", o.task))
             ELSE Finally(W0, a, "cancelled")
        ELSE IF o.task = "restore"
             THEN AfterRelease(release_resume(W, a), a, o.exc)
             ELSE IF o.task = "gather"
             THEN Finally(W, a, "error")
             ELSE IF LoopGoesOn(W, a)
                  THEN update_lights(W, a, sample)
                  ELSE Finally(W, a, "none")

\* a test that asks whether the light is one of the animation's own
OwnsLightByMembership(W, a, entity_id) == entity_id \in Range(W.obj[a].active)

\* the ownership test of Animation.update_light, line 837
OwnsLight(W, a, entity_id) == W.light_owner[entity_id] = a

\* Animation.get_static_or_random of a brightness, on the number u the
\* random generator drew: randrange(value[0], value[1] + 1) for a list
get_static_or_random(value, u) ==
    IF value.list THEN value.lo + (u % (value.hi - value.lo + 1)) ELSE value.lo

\* Animation.pick_color: random.choices draws one of the colours of positive
\* weight
pick_color(o, pick) ==
    LET drawable == SelectSeq(o.colors, LAMBDA c : c.weight > 0)
    IN  drawable[((pick - 1) % Len(drawable)) + 1]

\* the brightness of the payload, lines 485-492
PayloadBrightness(o, color, attributes, u) ==
    IF o.animate_brightness /\ "brightness" \in DOMAIN color
    THEN Put(attributes, "brightness", get_static_or_random(color.brightness, u))
    ELSE IF o.animate_brightness
    THEN Put(attributes, "brightness", get_static_or_random(o.global_brightness, u))
    ELSE IF ~o.global_brightness.list
    THEN Put(attributes, "brightness", o.global_brightness.lo)
    ELSE attributes

\* self._colors[self._current_color_index] (line 465) and random.choices of
\* pick_color (line 785) raise IndexError when there is no such colour
NoColorAt(o) ==
    IF o.sequence THEN o.current_color_index >= Len(o.colors) ELSE o.colors = <<>>

\* Animation.build_light_attributes: the payload and the _light_status it
\* leaves; the transition is the default one
build_light_attributes(o, light, initial, draw) ==
    IF /\ light \in DOMAIN o.light_status
       /\ o.light_status[light].change_one
       /\ draw.coin = 2
    THEN [attributes |->
             [entity_id |-> light, transition |-> 1,
              brightness |-> get_static_or_random(o.light_status[light].brightness,
                                                  draw.u)],
          light_status |-> o.light_status, raises |-> FALSE]
    ELSE IF NoColorAt(o)
    THEN [attributes |-> [entity_id |-> light, transition |-> 1],
          light_status |-> o.light_status, raises |-> TRUE]
    ELSE LET color == IF o.sequence THEN o.colors[o.current_color_index + 1]
                      ELSE pick_color(o, draw.pick)
             base == [entity_id |-> light, transition |-> 1]
             coloured == IF o.animate_color \/ initial
                         THEN Put(base, color.color_type, color.color)
                         ELSE base
         IN  [attributes |-> PayloadBrightness(o, color, coloured, draw.u),
              light_status |->
                 IF "brightness" \in DOMAIN color /\ color.one_change_per_tick
                 THEN Put(o.light_status, light,
                          [change_one |-> TRUE, brightness |-> color.brightness])
                 ELSE o.light_status,
              raises |-> FALSE]

\* Animation.update_light, run as one coroutine of a gather
update_light(W, a, entity_id, via) ==
    IF ~OwnsLight(W, a, entity_id)
    THEN Emit(W, Ev("skip", a, entity_id, via))
    ELSE LET b == build_light_attributes(W.obj[a], entity_id, via = "initial", W.draw)
         IN  IF b.raises
             THEN Emit(W, Ev("error", a, entity_id, "IndexError colors"))
             ELSE safe_call([W EXCEPT !.obj[a].light_status = b.light_status],
                            a, "turn_on", entity_id, b.attributes, via)

\* update_light raises for this light: it is the animation's and there is
\* no colour to build the payload from
UpdateRaises(W, a, entity_id) ==
    /\ OwnsLight(W, a, entity_id)
    /\ build_light_attributes(W.obj[a], entity_id, FALSE, W.draw).raises

\* the second loop and the third loop of remove_lights, lines 1183-1188,
\* from the animation affected[1] on
RECURSIVE remove_stop_loop(_, _, _)
remove_stop_loop(W, req, affected) ==
    IF affected = <<>> THEN Return(W, "remove", 0, "ok", req)
    ELSE LET animation == Head(affected)
         IN  IF Len(W.obj[animation].active) = 0
             THEN LET r == AnimationStop(W, animation)
                  IN  IF r.out = "await"
                      THEN HRet(r.w, [Suspended("remove", "await_stop", animation, req)
                                        EXCEPT !.affected = Tail(affected)])
                      ELSE IF r.out = "error" THEN Return(r.w, "remove", animation, "error", req)
                      ELSE remove_stop_loop(r.w, req, Tail(affected))
             ELSE remove_stop_loop(W, req, Tail(affected))

RECURSIVE remove_empty_lists(_, _)
remove_empty_lists(W, lights) ==
    IF lights = <<>> THEN W
    ELSE LET light == Head(lights)
         IN  remove_empty_lists(
                IF light \in DOMAIN W.light_animations /\ W.light_animations[light] = <<>>
                THEN [W EXCEPT !.light_animations = Del(@, light)]
                ELSE W, Tail(lights))

remove_after_gather(W, req, affected) ==
    remove_stop_loop(remove_empty_lists(W, req.lights), req, affected)

\* a remove_light that leaves the active set alone
remove_light_kept(W, a, light) == W

\* Animation.remove_light
remove_light(W, a, light) ==
    [W EXCEPT !.obj[a].active = RemoveFirst(@, light)]

\* the first loop of remove_lights, lines 1174-1180: [w, kids]
RECURSIVE remove_first_loop(_, _, _)
remove_first_loop(W, lights, kids) ==
    IF lights = <<>> THEN [w |-> W, kids |-> kids]
    ELSE LET light == Head(lights)
         IN  IF light \in DOMAIN W.light_owner
             THEN LET animation == W.light_owner[light]
                  IN  remove_first_loop(remove_light(W, animation, light), Tail(lights),
                          kids \cup {[a |-> animation, l |-> light, phase |-> "pending"]})
             ELSE remove_first_loop(W, Tail(lights), kids)

\* the orders in which the set affected_animations may be iterated
Orders(S) == {s \in UNION {[1..n -> S] : n \in {Cardinality(S)}} : Range(s) = S}

\* Animations.remove_lights up to its first suspension
ManagerRemoveLights(W, req, order) ==
    IF ~LightsSchemaOk(req) THEN Refuse(W, "remove", req, "Invalid schema") ELSE
    LET f == remove_first_loop(W, req.lights, {})
    IN  IF f.kids = {}
        THEN remove_after_gather(f.w, req, order)
        ELSE HRet(f.w, [Suspended("remove", "await_gather", 0, req)
                          EXCEPT !.kids = f.kids, !.affected = order])

Affected(W, req) == {W.light_owner[l] : l \in Range(req.lights) \cap DOMAIN W.light_owner}

\* Animation.add_lights
add_lights(W, a, ids) ==
    LET active == add_lights_loop(W.obj[a].active, ids, W.obj[a].ignore_off, W.hass)
    IN  store_states([W EXCEPT !.obj[a].active = active], active)

\* either identifier is accepted, both being given included
OneIdentifier_either(req) == req.name # Absent \/ req.switch # Absent

\* the name or the switch is given, but not both, lines 1129-1135
OneIdentifier(req) == (req.name # Absent) # (req.switch # Absent)

\* the name add_lights_to_animation resolves, lines 1142-1147
AddName(req) ==
    IF req.name # Absent THEN req.name
    ELSE IF req.switch \in DOMAIN FriendlyNames THEN FriendlyNames[req.switch]
    ELSE req.switch

\* Animations.add_lights_to_animation
ManagerAddLights(W, req) ==
    IF ~LightsSchemaOk(req) THEN Refuse(W, "add", req, "Invalid schema")
    ELSE IF ~OneIdentifier(req)
    THEN Refuse(W, "add", req, "IntegrationError name or switch")
    ELSE IF req.name = Absent /\ req.switch \notin Switches
    THEN Refuse(W, "add", req, "AttributeError")
    ELSE LET name == AddName(req) IN
    IF name \notin DOMAIN W.animations
    THEN Refuse(W, "add", req, "IntegrationError not running")
    ELSE LET animation == W.animations[name]
         IN  Return(add_lights(claim_lights(W, animation, req.lights), animation,
                               req.lights), "add", animation, "ok", req)

\* a handler that re-applies the animation whenever the light is on
handle_external_light_change_any(W, e) ==
    IF e.new = Absent \/ e.old = Absent
    THEN Emit(W, Ev("external", 0, e.entity_id, "ignored"))
    ELSE IF e.new = "on"
    THEN LET W1 == IF e.entity_id \notin DOMAIN W.states
                   THEN [W EXCEPT !.states = Put(@, e.entity_id, W.hass[e.entity_id])]
                   ELSE W
         IN  IF e.entity_id \notin DOMAIN W1.light_animations
             THEN Emit(W1, Ev("error", 0, e.entity_id, "KeyError light_animations"))
             ELSE LET animation == refresh_animation_for_light(W1, e.entity_id)
                  IN  IF animation # 0
                      THEN update_light(Emit(W1, Ev("external", animation, e.entity_id, "on")),
                                        animation, e.entity_id, "external")
                      ELSE Emit(W1, Ev("external", 0, e.entity_id, "on"))
    ELSE Emit(W, Ev("external", 0, e.entity_id, "ignored"))

\* Animations._handle_external_light_change
handle_external_light_change(W, e) ==
    IF e.new = Absent \/ e.old = Absent
    THEN Emit(W, Ev("external", 0, e.entity_id, "ignored"))
    ELSE IF e.new = "on" /\ e.old = "off"
    THEN LET W1 == IF e.entity_id \notin DOMAIN W.states
                   THEN [W EXCEPT !.states = Put(@, e.entity_id, W.hass[e.entity_id])]
                   ELSE W
         IN  IF e.entity_id \notin DOMAIN W1.light_animations
             THEN Emit(W1, Ev("error", 0, e.entity_id, "KeyError light_animations"))
             ELSE LET animation == refresh_animation_for_light(W1, e.entity_id)
                  IN  IF animation # 0
                      THEN update_light(Emit(W1, Ev("external", animation, e.entity_id, "on")),
                                        animation, e.entity_id, "external")
                      ELSE Emit(W1, Ev("external", 0, e.entity_id, "on"))
    ELSE Emit(W, Ev("external", 0, e.entity_id, "ignored"))

(***************************************************************************)
(* The state machine.                                                      *)
(***************************************************************************)
Slots == 1..MaxConc
Objects == 1..Len(obj)

\* the coroutine that takes a step: a request that arrives in slot a, the
\* handler of slot a that is resumed, the task of animation a, the coroutine
\* of animation a for light l; n alternates from step to step
NoTurn == [k |-> "off", a |-> 0, l |-> "-", n |-> 0]
Turn(k, a, l) == [k |-> k, a |-> a, l |-> l, n |-> 1 - turn.n]
Mark(k, a, l) == turn' = IF turn.k = "off" THEN turn ELSE Turn(k, a, l)

SetWorld(W) ==
    /\ obj' = W.obj
    /\ animations' = W.animations
    /\ states' = W.states
    /\ light_animations' = W.light_animations
    /\ light_owner' = W.light_owner
    /\ listener' = W.listener
    /\ log' = W.log

\* the world at the beginning of a step: the log holds one step only
Now == [World EXCEPT !.log = <<>>]

\* what the host may answer to the light service calls of a step
Faults == IF scope.faults THEN BOOLEAN ELSE {FALSE}
Host(f) == [Now EXCEPT !.fails = f]

\* what the random generator may answer to an animation in a step: the coin
\* of the one-change-per-tick branch, the colour random.choices draws, and
\* the offset randrange draws within a list of two bounds
HasList(o) ==
    \/ o.global_brightness.list
    \/ o.change_amount.kind = "range"
    \/ \E i \in 1..Len(o.colors) : o.colors[i].brightness.list
Draws(o) ==
    [coin : IF \E i \in 1..Len(o.colors) : o.colors[i].one_change_per_tick
            THEN {1, 2} ELSE {1},
     pick : IF o.sequence \/ o.colors = <<>> THEN {1} ELSE 1..Len(o.colors),
     u : IF HasList(o) THEN 0..MaxDraw ELSE {0}]
Drawn(W, d) == [W EXCEPT !.draw = d]

FreeSlot(h) ==
    /\ handlers[h].op = "idle"
    /\ \A g \in Slots : g < h => handlers[g].op # "idle"

\* nothing is in flight: no request, no event, no step of a task is due
Quiescent ==
    /\ \A h \in Slots : handlers[h].op = "idle"
    /\ events = {}
    /\ \A a \in Objects :
          /\ obj[a].pend = {}
          /\ ~obj[a].cancel
          /\ obj[a].task \notin {"created", "gather", "restore"}

\* the environment may act: a request arrives, or a light changes
MayArrive(kind) ==
    /\ kind \in scope.kinds
    /\ nops < scope.ops
    /\ scope.quiet => Quiescent

Accept(h, kind) ==
    /\ MayArrive(kind)
    /\ FreeSlot(h)
    /\ h <= scope.conc
    /\ nops' = nops + 1

Handle(h, r) ==
    /\ SetWorld(r.w)
    /\ handlers' = [handlers EXCEPT ![h] = r.hr]

\* no call of _convert_mireds_to_kelvin on its own is under way
NotCalled == [out |-> "none", value |-> None]

Init ==
    /\ obj = <<>>
    /\ animations = EmptyMap
    /\ states = EmptyMap
    /\ light_animations = EmptyMap
    /\ light_owner = EmptyMap
    /\ listener = ListenerNone
    /\ scope \in Scopes
    /\ hass_states = [l1 |-> scope.l1, l2 |-> StOn200]
    /\ handlers = [h \in Slots |-> Idle]
    /\ events = {}
    /\ log = <<>>
    /\ nops = 0
    /\ nticks = 0
    /\ call_mireds = None
    /\ call_kelvin = NotCalled
    /\ turn = NoTurn

\* names are interchangeable: a behaviour uses them in the order of NameOrder
NameOrder == <<"a", "b", "c">>
Used == {obj[a].name : a \in Objects}
FreshNames == Used \cup {NameOrder[i] : i \in {Cardinality(Used) + 1} \cap 1..scope.names}

\* a start request arrives: Animations.start runs to its first suspension
Start(h, req) ==
    /\ Accept(h, "start")
    /\ req.priority \in scope.priorities
    /\ \/ req.lights \in scope.lists /\ req.name \in FreshNames /\ Len(obj) < scope.objs
       \/ scope.forms = "any" /\ req.lights = <<"l1">> /\ req.name = Absent
       \/ scope.forms = "any" /\ req.lights = <<BadId>> /\ req.name = "a"
    /\ Handle(h, ManagerStart(Now, req))
    /\ Mark("request", h, "-")
    /\ UNCHANGED <<call_mireds, call_kelvin, scope, hass_states, events, nticks>>

\* a stop request arrives: Animations.stop runs to its first suspension
Stop(h, name) ==
    /\ Accept(h, "stop")
    /\ name \in FreshNames \/ (scope.forms = "any" /\ name = Absent)
    /\ Handle(h, ManagerStop(Now, [name |-> name, was |-> "-"]))
    /\ Mark("request", h, "-")
    /\ UNCHANGED <<call_mireds, call_kelvin, scope, hass_states, events, nticks>>

\* the task a request waits for in Animation.stop is done: the request goes on
\* the task a handler awaits is done
StopReady(h) == handlers[h].pc = "await_stop" /\ TaskDone(obj[handlers[h].a].task)

StopAwaited(h) ==
    /\ StopReady(h)
    /\ LET hr == handlers[h]
           failed == obj[hr.a].task = "failed"
       IN  Handle(h, IF failed THEN Return(Now, hr.op, hr.a, "error", hr.req)
                     ELSE IF hr.op = "start" THEN StartBody(Now, hr.req)
                     ELSE IF hr.op = "remove"
                     THEN remove_stop_loop(Now, hr.req, hr.affected)
                     ELSE Return(Now, hr.op, hr.a, "ok", hr.req))
    /\ Mark("resume", h, "-")
    /\ UNCHANGED <<call_mireds, call_kelvin, scope, hass_states, events, nops, nticks>>

\* the gather of the initial updates is done: Animation.start goes on
\* the gather of Animation.start is done
InitReady(h) == handlers[h].pc = "await_init" /\ obj[handlers[h].a].pend = {}

StartInitDone(h) ==
    /\ InitReady(h)
    /\ \E f \in Faults :
          Handle(h, IF obj[handlers[h].a].exc = "error"
                    THEN Return([Host(f) EXCEPT !.obj[handlers[h].a].exc = "none"],
                                "start", handlers[h].a, "error", handlers[h].req)
                    ELSE StartAfterInit(Host(f), handlers[h].req, handlers[h].a))
    /\ Mark("resume", h, "-")
    /\ UNCHANGED <<call_mireds, call_kelvin, scope, hass_states, events, nops, nticks>>

\* the restore call of a one-shot animation's release returned
StartReleaseResumed(h) ==
    /\ handlers[h].pc = "await_release"
    /\ \E f \in Faults :
          LET hr == handlers[h]
              r == release_resume(Host(f), hr.a)
          IN  Handle(h, IF r.out = "await" THEN HRet(r.w, hr)
                        ELSE Return(r.w, "start", hr.a,
                                    IF r.out = "done" THEN "ok" ELSE "error", hr.req))
    /\ UNCHANGED <<turn, call_mireds, call_kelvin, scope, hass_states, events, nops, nticks>>

\* the animation has made a light service call that does not return
Hung(a) == obj[a].hung # {}

\* a call that keeps the whole event loop from running
StalledBy_loop(x) == Objects

\* the animations a call of x that does not return keeps from running:
\* safe_call awaits the call (line 246), which suspends the coroutine of
\* update_light that made it, and with it the gather and the task of x
StalledBy(x) == {x}

\* no call of another animation keeps b from running
NotStalled(b) == \A x \in Objects \ {b} : Hung(x) => b \notin StalledBy(x)

\* a coroutine of a gather of update_light can run
ChildReady(a, l) == l \in obj[a].pend \ obj[a].hung /\ NotStalled(a)

\* one coroutine of a gather of update_light runs; if it raises, the gather
\* raises in the coroutine that awaits it (the other coroutines of the
\* gather raise in the same place or skip their light, before anything
\* they do can be seen)
UpdateLight(a, l) ==
    /\ ChildReady(a, l)
    /\ \E f \in Faults, d \in Draws(obj[a]) :
          LET via == IF obj[a].task = "none" THEN "initial" ELSE "update"
              W == update_light(Drawn(Host(f), d), a, l, via)
              rest == obj[a].pend \ {l}
          IN  IF UpdateRaises(Drawn(Host(f), d), a, l)
              THEN SetWorld([W EXCEPT !.obj[a].pend = {}, !.obj[a].hung = {},
                                      !.obj[a].exc = "error"])
              ELSE SetWorld([W EXCEPT !.obj[a].pend = rest,
                                      !.obj[a].task = IF rest = {} /\ @ = "gather"
                                                      THEN "sleep" ELSE @])
    /\ Mark("update", a, l)
    /\ UNCHANGED <<call_mireds, call_kelvin, scope, hass_states, handlers, events, nops, nticks>>

\* the task of animate runs: its first step, a wake-up from sleep, the return
\* of a restore call, the exception of its gather, or the delivery of a
\* cancellation
TaskReady(a, counted) ==
    /\ NotStalled(a)
    /\ \/ obj[a].cancel /\ ~TaskDone(obj[a].task) /\ obj[a].task # "none"
       \/ obj[a].task = "restore"
       \/ obj[a].task = "gather" /\ obj[a].exc = "error"
       \/ obj[a].task = "created"
       \/ obj[a].task = "sleep" /\ (LoopGoesOn(World, a) /\ counted => nticks < MaxTicks)

AnimateStep(a, counted) ==
    /\ TaskReady(a, counted)
    /\ LET ticks == ~obj[a].cancel /\ obj[a].task \in {"created", "sleep"}
                    /\ LoopGoesOn(World, a)
       IN  /\ nticks' = IF ticks /\ obj[a].task = "sleep" /\ counted
                        THEN nticks + 1 ELSE nticks
           /\ \E d \in (IF ticks THEN Draws(obj[a]) ELSE {NoDraw}) :
                 \E sample \in (IF ticks THEN Samples(Drawn(World, d), a) ELSE {{}}),
                    f \in Faults :
                    SetWorld(animate(Drawn(Host(f), d), a, sample))
    /\ Mark("animate", a, "-")
    /\ UNCHANGED <<call_mireds, call_kelvin, scope, hass_states, handlers, events, nops>>

\* the task of animate runs, in an exploration that counts the ticks
Animate(a) == AnimateStep(a, TRUE)

\* a light service call of a tick of the animation is made and does not
\* return: the coroutine of update_light stays suspended in safe_call
Hang(a, l) ==
    /\ ChildReady(a, l)
    /\ obj[a].task = "gather"
    /\ \E d \in Draws(obj[a]) :
          /\ OwnsLight(World, a, l)
          /\ ~UpdateRaises(Drawn(Now, d), a, l)
          /\ SetWorld([update_light(Drawn(Host(FALSE), d), a, l, "update")
                         EXCEPT !.obj[a].hung = @ \cup {l}])
    /\ Mark("hang", a, l)
    /\ UNCHANGED <<call_mireds, call_kelvin, scope, hass_states, handlers, events, nops, nticks>>

\* a remove_lights request arrives
RemoveLights(h, req) ==
    /\ Accept(h, "remove")
    /\ req.lights \in scope.lists \/ (scope.forms = "any" /\ req.lights = <<BadId>>)
    /\ \E order \in Orders(Affected(World, req)) :
          Handle(h, ManagerRemoveLights(Now,
                    [lights |-> req.lights, skip_restore |-> req.skip_restore,
                     affected |-> Affected(World, req),
                     owners |-> [l \in Range(req.lights) \cap DOMAIN light_owner |->
                                   light_owner[l]],
                     running |-> {a \in Affected(World, req) :
                                    /\ Get(animations, obj[a].name) = a
                                    /\ obj[a].task \in {"created", "gather", "sleep"}}],
                    order))
    /\ UNCHANGED <<turn, call_mireds, call_kelvin, scope, hass_states, events, nticks>>

\* one release_light coroutine of the gather of remove_lights runs, from its
\* start or from its restore call; if it raises, so does remove_lights, and
\* the other coroutines of the gather go on
RemoveChild(h, k) ==
    /\ k \in handlers[h].kids
    /\ \E f \in Faults :
          LET hr == handlers[h]
              r == IF k.phase = "pending"
                   THEN release_light(Host(f), k.a, k.l, TRUE, hr.req.skip_restore)
                   ELSE release_light_finish(Now, k.a, k.l)
              rest == hr.kids \ {k}
          IN  IF r.out = "await"
              THEN Handle(h, HRet(r.w, [hr EXCEPT !.kids = rest \cup {[k EXCEPT !.phase = "restore"]}]))
              ELSE IF r.out = "done" \/ hr.pc = "orphans"
              THEN Handle(h, HRet(r.w, IF rest = {} /\ hr.pc = "orphans" THEN Idle
                                       ELSE [hr EXCEPT !.kids = rest]))
              ELSE Handle(h, HRet(Return(r.w, "remove", k.a, "error", hr.req).w,
                                  IF rest = {} THEN Idle
                                  ELSE [hr EXCEPT !.kids = rest, !.pc = "orphans"]))
    /\ UNCHANGED <<turn, call_mireds, call_kelvin, scope, hass_states, events, nops, nticks>>

\* the gather of remove_lights is done: remove_lights goes on
RemoveGatherDone(h) ==
    /\ handlers[h].pc = "await_gather"
    /\ handlers[h].kids = {}
    /\ Handle(h, remove_after_gather(Now, handlers[h].req, handlers[h].affected))
    /\ UNCHANGED <<turn, call_mireds, call_kelvin, scope, hass_states, events, nops, nticks>>

\* an add_lights_to_animation request: the handler never suspends
AddLights(h, req) ==
    /\ Accept(h, "add")
    /\ \/ req.name \in FreshNames /\ req.switch = Absent /\ req.lights # <<BadId>>
       \/ /\ scope.forms = "any"
          /\ req.name \in {Absent, "a"}
          /\ req.lights = <<BadId>> => (req.name = "a" /\ req.switch = Absent)
    /\ Handle(h, ManagerAddLights(Now, req))
    /\ UNCHANGED <<turn, call_mireds, call_kelvin, scope, hass_states, events, nticks>>

\* the state of a light changes; the listener, if it covers the light,
\* schedules _handle_external_light_change
ExternalChange(l, st) ==
    /\ MayArrive("change")
    /\ st # hass_states[l]
    /\ nops' = nops + 1
    /\ hass_states' = [hass_states EXCEPT ![l] = st]
    /\ events' = IF listener.on /\ l \in listener.lights
                 THEN events \cup {[entity_id |-> l, old |-> hass_states[l].state,
                                    new |-> st.state]}
                 ELSE events
    /\ log' = <<>>
    /\ UNCHANGED <<turn, call_mireds, call_kelvin, scope, obj, animations, states,
                   light_animations, light_owner, listener,
                   handlers, nticks>>

\* the entity of a light is registered anew by the host: one event without
\* a new state, one without an old state
ExternalReload(l) ==
    /\ MayArrive("change")
    /\ listener.on /\ l \in listener.lights
    /\ nops' = nops + 1
    /\ events' = events \cup {[entity_id |-> l, old |-> hass_states[l].state,
                               new |-> Absent],
                              [entity_id |-> l, old |-> Absent,
                               new |-> hass_states[l].state]}
    /\ log' = <<>>
    /\ UNCHANGED <<turn, call_mireds, call_kelvin, scope, hass_states, obj, animations,
                   states, light_animations, light_owner, listener,
                   handlers, nticks>>

\* a scheduled _handle_external_light_change runs
ExternalHandler(e) ==
    /\ e \in events
    /\ events' = events \ {e}
    /\ \E f \in Faults, d \in {NoDraw} \cup UNION {Draws(obj[a]) : a \in Objects} :
          SetWorld(handle_external_light_change(Drawn(Host(f), d), e))
    /\ UNCHANGED <<turn, call_mireds, call_kelvin, scope, hass_states, handlers, nops, nticks>>

RemoveRequests == [lights : LightLists \cup {<<BadId>>}, skip_restore : BOOLEAN]
AddRequests ==
    [name : Names \cup {Absent}, switch : Switches \cup {Absent, "sw_gone"},
     lights : {<<"l1">>, <<"l2">>, <<BadId>>}]

Next ==
    \/ \E h \in Slots, name \in Names \cup {Absent},
          lights \in LightLists \cup {<<BadId>>}, priority \in Priorities :
          Start(h, StartRequest(name, lights, priority, scope.options))
    \/ \E h \in Slots, name \in Names \cup {Absent} : Stop(h, name)
    \/ \E h \in Slots, req \in RemoveRequests : RemoveLights(h, req)
    \/ \E h \in Slots : \E k \in handlers[h].kids : RemoveChild(h, k)
    \/ \E h \in Slots : RemoveGatherDone(h)
    \/ \E h \in Slots, req \in AddRequests : AddLights(h, req)
    \/ \E l \in {"l1"}, st \in LightStates : ExternalChange(l, st)
    \/ \E l \in {"l1"} : ExternalReload(l)
    \/ \E e \in events : ExternalHandler(e)
    \/ \E h \in Slots : StopAwaited(h)
    \/ \E h \in Slots : StartInitDone(h)
    \/ \E h \in Slots : StartReleaseResumed(h)
    \/ \E a \in Objects, l \in Lights : UpdateLight(a, l)
    \/ \E a \in Objects : Animate(a)

Spec == Init /\ [][Next]_vars

(***************************************************************************)
(* Animations that tick without end, some of whose light service calls do  *)
(* not return.  The event loop runs every coroutine that is ready: the     *)
(* task of an animation after its sleep or when its gather is done, a      *)
(* coroutine of a gather whose call returns, a handler when what it awaits *)
(* is done.                                                                *)
(***************************************************************************)
LiveScope ==
    [options |-> BaseOptions, priorities |-> {10}, lists |-> LightLists,
     names |-> 2, l1 |-> StOn120, kinds |-> {"start", "stop"}, quiet |-> FALSE,
     conc |-> 1, ops |-> MaxOps - 1, objs |-> MaxObj - 1, forms |-> "plain",
     faults |-> FALSE]

LiveInit ==
    /\ obj = <<>>
    /\ animations = EmptyMap
    /\ states = EmptyMap
    /\ light_animations = EmptyMap
    /\ light_owner = EmptyMap
    /\ listener = ListenerNone
    /\ scope = LiveScope
    /\ hass_states = [l1 |-> scope.l1, l2 |-> StOn200]
    /\ handlers = [h \in Slots |-> Idle]
    /\ events = {}
    /\ log = <<>>
    /\ nops = 0
    /\ nticks = 0
    /\ call_mireds = None
    /\ call_kelvin = NotCalled
    /\ turn = [NoTurn EXCEPT !.k = "init"]

\* the task of animate runs, however many ticks there have been
AnimateOn(a) == AnimateStep(a, FALSE)

LiveObjects == 1..LiveScope.objs

LiveNext ==
    \/ \E h \in Slots, name \in Names, lights \in LightLists, priority \in Priorities :
          Start(h, StartRequest(name, lights, priority, scope.options))
    \/ \E h \in Slots, name \in Names : Stop(h, name)
    \/ \E h \in Slots : StopAwaited(h)
    \/ \E h \in Slots : StartInitDone(h)
    \/ \E a \in Objects, l \in Lights : UpdateLight(a, l)
    \/ \E a \in Objects, l \in Lights : Hang(a, l)
    \/ \E a \in Objects : AnimateOn(a)

\* the steps of LiveNext by the coroutine that takes them: a step of
\* StopAwaited or StartInitDone, of AnimateOn, and of UpdateLight or Hang
Resumed(h) == (StopReady(h) \/ InitReady(h)) /\ turn' = Turn("resume", h, "-")
TaskRan(a) == a \in Objects /\ TaskReady(a, FALSE) /\ turn' = Turn("animate", a, "-")
ChildRan(a, l) ==
    /\ a \in Objects /\ ChildReady(a, l)
    /\ turn' \in {Turn("update", a, l), Turn("hang", a, l)}

\* a coroutine that is ready is run: a handler, the task of an animation,
\* and a coroutine of a gather, whose call returns unless it hangs
LiveFairness ==
    /\ \A h \in Slots : WF_turn(Resumed(h))
    /\ \A a \in LiveObjects :
          /\ WF_turn(TaskRan(a))
          /\ \A l \in Lights : WF_turn(ChildRan(a, l))

LiveSpec == LiveInit /\ [][LiveNext]_vars /\ LiveFairness

(***************************************************************************)
(* _convert_mireds_to_kelvin on its own: the function is called with an    *)
(* integer and returns or raises.                                          *)
(***************************************************************************)
MiredsInputs == (0 - MaxBelow)..MaxMireds

KelvinInit ==
    /\ call_mireds \in MiredsInputs
    /\ call_kelvin = NotCalled
    /\ obj = <<>>
    /\ animations = EmptyMap
    /\ states = EmptyMap
    /\ light_animations = EmptyMap
    /\ light_owner = EmptyMap
    /\ listener = ListenerNone
    /\ scope = PriorityScope
    /\ hass_states = [l1 |-> scope.l1, l2 |-> StOn200]
    /\ handlers = [h \in Slots |-> Idle]
    /\ events = {}
    /\ log = <<>>
    /\ nops = 0
    /\ nticks = 0
    /\ turn = NoTurn

\* the call
Convert ==
    /\ call_kelvin = NotCalled
    /\ call_kelvin' = convert_mireds_to_kelvin(call_mireds)
    /\ UNCHANGED <<call_mireds, obj, animations, states, light_animations, light_owner,
                   listener, scope, hass_states, handlers, events, log, nops, nticks,
                   turn>>

KelvinNext == Convert

KelvinSpec == KelvinInit /\ [][KelvinNext]_vars

TypeOK ==
    /\ DOMAIN animations \subseteq Names
    /\ \A l \in DOMAIN light_owner : light_owner[l] \in Objects

(***************************************************************************)
(* The properties.                                                         *)
(***************************************************************************)
Registered(a) == Get(animations, obj[a].name) = a
Listed(a, l) == l \in DOMAIN light_animations /\ a \in Range(light_animations[l])
LogHas(P(_)) == \E i \in 1..Len(log) : P(log[i])

\* nothing is in flight: the manager's tables are what an operation left
AtRest == Quiescent

\* C1: in every reachable state, for every light that has an entry in
\* light_owner, the owner is an element of light_animations of that light.
\* Stated for the states at rest, where no release is half done.
C1_OwnerIsListed ==
    AtRest => \A l \in DOMAIN light_owner : Listed(light_owner[l], l)

\* a registered animation that holds l in its active set and has not
\* released it (release_light takes it off light_animations[l] first)
Interested(a, l) ==
    Registered(a) /\ l \in Range(obj[a].active) /\ Listed(a, l)

\* C2: when no manager operation is in progress, states has an entry for a
\* light if and only if some registered animation holds the light in its
\* active set and has not yet released it.
C2_SnapshotIffInterest ==
    AtRest => \A l \in Lights :
                 (l \in DOMAIN states) <=> (\E a \in Objects : Interested(a, l))

\* a registered animation whose loop task is alive
Running(a) == Registered(a) /\ obj[a].task \in {"created", "gather", "sleep"}

UpdateCallBy(a, l) ==
    LogHas(LAMBDA e : e.ev = "call" /\ e.a = a /\ e.l = l /\ e.d.via # "restore")

\* C3: two running animations A and B both have the light l in their lights,
\* A has the higher priority and no other registered animation refers to l:
\* then A owns l and no update_light of B issues a call for l.
C3_HigherPriorityOwns ==
    \A l \in Lights : \A A \in Objects : \A B \in Objects :
        (/\ Running(A) /\ Running(B)
         /\ l \in Range(obj[A].lights) /\ l \in Range(obj[B].lights)
         /\ obj[A].priority > obj[B].priority
         /\ \A c \in Objects \ {A, B} : Registered(c) => l \notin Range(obj[c].lights))
        => /\ Get(light_owner, l) = A
           /\ ~UpdateCallBy(B, l)

\* the object a step constructed
Constructed == Len(obj') = Len(obj) + 1

\* C4: Manager.start of a new animation N: every light of N that had no
\* owner, or an owner of priority <= N's, is owned by N afterwards, every
\* other light of N keeps its owner; N is appended to light_animations of
\* each of its lights; lights that are not N's keep owner and list.
C4_StartClaimsLights ==
    [][Constructed =>
        LET n == Len(obj')
            N == obj'[n]
        IN  /\ \A l \in Range(N.lights) :
                  /\ light_owner'[l] =
                        IF l \notin DOMAIN light_owner
                           \/ obj[light_owner[l]].priority <= N.priority
                        THEN n ELSE light_owner[l]
                  /\ light_animations'[l] =
                        Append(IF l \in DOMAIN light_animations
                               THEN light_animations[l] ELSE <<>>, n)
            /\ \A l \in Lights \ Range(N.lights) :
                  /\ Get(light_owner', l) = Get(light_owner, l)
                  /\ (l \in DOMAIN light_animations') = (l \in DOMAIN light_animations)
                  /\ l \in DOMAIN light_animations =>
                        light_animations'[l] = light_animations[l]]_vars

\* the scenario of C4: the second animation, of higher priority, has just
\* taken l1 from the first, which keeps l2
C4_Witness ==
    /\ Len(obj) = 2
    /\ LogHas(LAMBDA e : e.ev = "register" /\ e.a = 2)
    /\ obj[1].lights = <<"l1", "l2">> /\ obj[2].lights = <<"l1">>
    /\ obj[1].priority < obj[2].priority
    /\ light_owner = [l1 |-> 2, l2 |-> 1]
    /\ light_animations = [l1 |-> <<1, 2>>, l2 |-> <<1>>]

\* C5: every turn_on that update_light issues (in a tick, in the initial
\* updates, on an external change) for animation a and light l is issued
\* in a state where light_owner[l] = a.
C5_WriteByOwnerOnly ==
    \A i \in 1..Len(log) :
        (log[i].ev = "call" /\ log[i].d.via # "restore")
        => Get(light_owner, log[i].l) = log[i].a

\* a tick of an animation writes to a light that another running animation
\* also holds in its active set
C5_Witness ==
    \E a \in Objects : \E b \in Objects \ {a} : \E l \in Lights :
        /\ LogHas(LAMBDA e : e.ev = "call" /\ e.a = a /\ e.l = l /\ e.d.via = "update")
        /\ Running(b) /\ l \in Range(obj[b].active)

\* an animation is live: registered, performing its initial updates, or
\* its loop task has not ended
Live(a) ==
    \/ Registered(a)
    \/ \E h \in Slots : handlers[h].pc = "await_init" /\ handlers[h].a = a
    \/ obj[a].task \in {"created", "gather", "sleep", "restore"}

\* C6: at any time at most one Animation object of a name is live.
C6_OneLivePerName ==
    \A a \in Objects : \A b \in Objects :
        (a # b /\ obj[a].name = obj[b].name) => ~(Live(a) /\ Live(b))

\* the loop of an animation was running when Animation.stop was called
LoopWasRunning(was) == was \in {"gather", "sleep"}

\* C7: when Manager.stop(name) completes for a registered animation whose
\* loop is running, the animation has executed release(): it is not in the
\* registry and release_light was called for each of its active lights.
\* Manager.stop for a name that is not registered changes no manager state
\* and issues no light call.
C7_StopReleases ==
    [][\A i \in 1..Len(log') :
          (log'[i].ev = "return" /\ log'[i].d.op = "stop")
          => LET a == log'[i].a
             IN  IF a = 0
                 THEN log'[i].d.result = "ok"
                      => /\ UNCHANGED <<obj, animations, states, light_animations,
                                        light_owner, listener>>
                         /\ Len(log') = 1
                 ELSE (log'[i].d.result = "ok" /\ LoopWasRunning(log'[i].d.req.was))
                      => /\ Get(animations', obj'[a].name) # a
                         /\ Range(obj'[a].active) \subseteq obj'[a].released]_vars

RestoreCalls(a, l) ==
    {i \in 1..Len(log) : /\ log[i].ev = "call" /\ log[i].a = a /\ log[i].l = l
                         /\ log[i].d.via = "restore"}

HandedOff(a, l) == LogHas(LAMBDA e : e.ev = "handoff" /\ e.a = a /\ e.l = l)

\* release_light ran for a and l in the last step, a owned l, the ownership
\* was not handed on
ReleasedAsOwner(i) ==
    /\ log[i].ev = "release_light"
    /\ log[i].d.owner = log[i].a
    /\ ~HandedOff(log[i].a, log[i].l)

C9_SnapshotDeleted ==
    /\ \A i \in 1..Len(log) :
          (ReleasedAsOwner(i) /\ RestoreCalls(log[i].a, log[i].l) = {})
          => log[i].l \notin DOMAIN states
    /\ \A i \in 1..Len(log) :
          (log[i].ev = "error" /\ log[i].a # 0 /\ log[i].l \in Lights)
          => Get(light_owner, log[i].l) # log[i].a

\* C10: when remove_lights completes, an affected animation whose active
\* set is empty has been stopped and is not in the registry; an affected
\* animation that was running and has an active light left is registered
\* and running (no other request being in flight).
C10_RemoveStopsEmpty ==
    [][\A i \in 1..Len(log') :
          (log'[i].ev = "return" /\ log'[i].d.op = "remove" /\ log'[i].d.result = "ok")
          => \A a \in log'[i].d.req.affected :
                IF obj'[a].active = <<>>
                THEN /\ Get(animations', obj'[a].name) # a
                     /\ obj'[a].task \notin {"created", "gather", "sleep", "restore"}
                ELSE (a \in log'[i].d.req.running /\ scope.quiet)
                     => /\ Get(animations', obj'[a].name) = a
                        /\ obj'[a].task \in {"created", "gather", "sleep"}]_vars

\* a remove_lights request was accepted in the step: its handler ran to its
\* first await, or to its end
RemoveAccepted(h) ==
    /\ handlers[h].op = "idle"
    /\ nops' = nops + 1
    /\ \/ handlers'[h].op = "remove"
       \/ \E i \in 1..Len(log') : log'[i].ev = "return" /\ log'[i].d.op = "remove"

\* the request of the remove_lights accepted in the step
RemoveRequest(h) ==
    IF handlers'[h].op = "remove" THEN handlers'[h].req
    ELSE (CHOOSE e \in Range(log') : e.ev = "return" /\ e.d.op = "remove").d.req

\* the restore calls the flags of the animation ask for, given the snapshot
ReplayAsked(a, snap) ==
    IF ~obj[a].restore THEN "none"
    ELSE IF snap.state = "on" THEN "turn_on"
    ELSE IF obj[a].restore_power THEN "turn_off" ELSE "none"

\* C11: remove_lights takes every requested light that has an owner out of
\* the owner's active set and releases it for the owner; requested lights
\* without an owner are skipped; a tick selects the lights it writes from
\* the active set, so the owner's later ticks do not write a removed light;
\* with skip_restore no snapshot is replayed for a released light, without
\* it the replay follows the owner's restore and restore_power.
C11_RemoveLights ==
    [][/\ \A h \in Slots :
             RemoveAccepted(h) =>
                LET R == RemoveRequest(h)
                    kids == handlers'[h].kids
                IN  /\ \A l \in Range(R.lights) :
                          IF l \in DOMAIN light_owner
                          THEN /\ l \notin Range(obj'[light_owner[l]].active)
                               /\ \E k \in kids : k.a = light_owner[l] /\ k.l = l
                          ELSE \A k \in kids : k.l # l
                    /\ \A a \in Objects :
                          Range(obj[a].active) \ Range(obj'[a].active) \subseteq
                             {l \in Range(R.lights) \cap DOMAIN light_owner :
                                 light_owner[l] = a}
       /\ \A i \in 1..Len(log') :
             log'[i].ev = "tick" => log'[i].d \subseteq Range(obj[log'[i].a].active)
       /\ \A i \in 1..Len(log') :
             (log'[i].ev = "release_light" /\ log'[i].d.skip_ownership)
             => LET a == log'[i].a
                    l == log'[i].l
                    calls == {c \in 1..Len(log') :
                                 /\ log'[c].ev = "call" /\ log'[c].a = a /\ log'[c].l = l
                                 /\ log'[c].d.via = "restore"}
                IN  IF log'[i].d.skip_restore \/ log'[i].d.owner # a \/ ~log'[i].d.has_snap
                    THEN calls = {}
                    ELSE IF ReplayAsked(a, log'[i].d.snap) = "none" THEN calls = {}
                    ELSE /\ Cardinality(calls) = 1
                         /\ \A c \in calls :
                               log'[c].d.service = ReplayAsked(a, log'[i].d.snap)]_vars

\* remove_lights completed after it released a light of a running animation
\* that has another light left
C11_Witness ==
    \E i \in 1..Len(log) :
        /\ log[i].ev = "return" /\ log[i].d.op = "remove" /\ log[i].d.result = "ok"
        /\ \E l \in DOMAIN log[i].d.req.owners :
              LET a == log[i].d.req.owners[l]
              IN  /\ Running(a)
                  /\ l \notin Range(obj[a].active)
                  /\ obj[a].active # <<>>

\* the return of an add_lights_to_animation request in the log of a step
AddReturn(e) == e.ev = "return" /\ e.d.op = "add"

\* C12: add_lights_to_animation raises and leaves the registry, light_owner,
\* light_animations, the stored states and every animation (its active set
\* included) as they were when the request gives both a name and a switch,
\* gives neither, or resolves to a name that is not in the registry.
C12_AddRefused ==
    [][\A i \in 1..Len(log') :
          (/\ AddReturn(log'[i])
           /\ LET req == log'[i].d.req
              IN  \/ req.name # Absent /\ req.switch # Absent
                  \/ req.name = Absent /\ req.switch = Absent
                  \/ AddName(req) \notin DOMAIN animations)
          => /\ log'[i].d.result = "error"
             /\ UNCHANGED <<obj, animations, states, light_animations, light_owner,
                            listener>>
             /\ \A j \in 1..Len(log') : log'[j].ev # "call"]_vars

\* an add naming the running animation "a" both by name and by switch was
\* refused
C12_Witness ==
    /\ "a" \in DOMAIN animations
    /\ \E i \in 1..Len(log) :
          /\ AddReturn(log[i])
          /\ log[i].d.result = "error"
          /\ log[i].d.req.name = "a"
          /\ log[i].d.req.switch = "sw_a"
          /\ log[i].d.req.lights = <<"l2">>

\* the off-light policy: a light that is off is left out when ignore_off is
\* set, and only then
PassesOffPolicy(a, l) == hass_states[l].state # "off" \/ ~obj[a].ignore_off

\* C13: after a successful add_lights_to_animation for the running animation
\* A, every added light L is owned by A if it had no owner or its owner's
\* priority was at most A's, and keeps its owner otherwise; A is among the
\* animations of L; and L is in A's active set when it passes the off-light
\* policy.
C13_AddClaims ==
    [][\A i \in 1..Len(log') :
          (AddReturn(log'[i]) /\ log'[i].d.result = "ok")
          => LET a == log'[i].a
                 Ls == Range(log'[i].d.req.lights)
             IN  \A L \in Ls :
                    /\ L \in DOMAIN light_owner'
                    /\ IF L \notin DOMAIN light_owner
                          \/ obj[light_owner[L]].priority <= obj[a].priority
                       THEN light_owner'[L] = a
                       ELSE light_owner'[L] = light_owner[L]
                    /\ L \in DOMAIN light_animations'
                    /\ a \in Range(light_animations'[L])
                    /\ PassesOffPolicy(a, L) => L \in Range(obj'[a].active)]_vars

\* the request of a return does not match the schema of its operation
FailsSchema(d) ==
    \/ /\ d.op = "start"
       /\ \/ d.req.name = Absent
          \/ BadId \in Range(d.req.lights)
          \/ \E c \in Range(d.req.colors) : c.color_type = "color_temp" /\ c.color < 1
    \/ d.op = "stop" /\ d.req.name = Absent
    \/ d.op \in {"add", "remove"} /\ BadId \in Range(d.req.lights)

\* C14: a start, stop, add_lights_to_animation or remove_lights request that
\* fails schema validation returns an error before any mutation: registry,
\* light_owner, light_animations, stored states, listener and every animation
\* object are as before, and no light call is issued.
C14_InvalidRequest ==
    [][\A i \in 1..Len(log') :
          (log'[i].ev = "return" /\ FailsSchema(log'[i].d))
          => /\ log'[i].d.result = "error"
             /\ UNCHANGED <<obj, animations, states, light_animations, light_owner,
                            listener>>
             /\ \A j \in 1..Len(log') : log'[j].ev # "call"]_vars

\* a start request with a malformed light id was refused while an animation
\* of the same name is running
C14_Witness ==
    /\ "a" \in DOMAIN animations
    /\ obj[animations["a"]].task = "sleep"
    /\ \E i \in 1..Len(log) :
          /\ log[i].ev = "return"
          /\ log[i].d.op = "start"
          /\ log[i].d.result = "error"
          /\ log[i].d.req.name = "a"
          /\ log[i].d.req.lights = <<BadId>>

\* C15: a light service call that raises during a tick, the initial updates
\* of start or a restore is neither propagated nor retried: the step logs a
\* warning and no error, makes the one call only, leaves the registry alone,
\* ends that light's update while the other lights of the fan-out stay due,
\* and leaves the task of the animation going.
C15_CallFailureDropped ==
    [][\A i \in 1..Len(log') :
          log'[i].ev = "raised"
          => LET a == log'[i].a
                 l == log'[i].l
                 via == log'[i].d
             IN  /\ \A j \in 1..Len(log') : log'[j].ev # "error"
                 /\ \E j \in 1..Len(log') :
                       log'[j].ev = "warning" /\ log'[j].a = a /\ log'[j].l = l
                 /\ Cardinality({j \in 1..Len(log') : log'[j].ev = "call"}) = 1
                 /\ animations' = animations
                 /\ Len(obj') = Len(obj)
                 /\ obj'[a].task # "failed"
                 /\ via \in {"initial", "update"}
                    => /\ obj'[a].pend = obj[a].pend \ {l}
                       /\ obj'[a].exc = obj[a].exc
                       /\ obj'[a].active = obj[a].active
                       /\ via = "update" => obj'[a].task \in {"gather", "sleep"}
                       /\ (via = "update" /\ obj'[a].pend = {}) => obj'[a].task = "sleep"]_vars

\* the call of a tick for l1 raised; the animation is registered and the
\* update of l2 of the same fan-out is still due
C15_Witness ==
    /\ \E i \in 1..Len(log) :
          /\ log[i].ev = "raised" /\ log[i].l = "l1" /\ log[i].d = "update"
          /\ obj[log[i].a].pend = {"l2"}
          /\ obj[log[i].a].task = "gather"
          /\ Get(animations, obj[log[i].a].name) = log[i].a

\* C16: Manager.start with a request that configures no change_frequency
\* makes the initial updates and releases at once: when start returns, it
\* returns normally, the animation is not in the registry, release_light
\* was run for each of its active lights, and it has no loop task (so no
\* tick can run for it).
C16_OneShotStart ==
    [][\A i \in 1..Len(log') :
          (/\ log'[i].ev = "return"
           /\ log'[i].d.op = "start"
           /\ ~FailsSchema(log'[i].d)
           /\ log'[i].d.req.change_frequency = None)
          => /\ log'[i].d.result = "ok"
             /\ log'[i].a \in 1..Len(obj')
             /\ LET a == log'[i].a
                IN  /\ obj'[a].name = log'[i].d.req.name
                    /\ Get(animations', obj'[a].name) # a
                    /\ Range(obj'[a].active) \subseteq obj'[a].released
                    /\ obj'[a].task = "none"]_vars

\* the colours of a request without the colour temperatures in mireds that
\* are not positive
RECURSIVE UsableColors(_)
UsableColors(colors) ==
    IF colors = <<>> THEN <<>>
    ELSE IF Head(colors).color_type = "color_temp" /\ Head(colors).color <= 0
    THEN UsableColors(Tail(colors))
    ELSE <<Head(colors)>> \o UsableColors(Tail(colors))

\* C17: a start request with a colour temperature in mireds that is not
\* positive does not fail: start returns normally, the animation is set up
\* with the remaining colours in their order (none of them in mireds any
\* more), and its weights are those of the remaining colours.
C17_BadMiredsDropped ==
    [][\A i \in 1..Len(log') :
          (/\ log'[i].ev = "return"
           /\ log'[i].d.op = "start"
           /\ log'[i].d.req.name # Absent
           /\ BadId \notin Range(log'[i].d.req.lights)
           /\ log'[i].d.req.change_frequency # None
           /\ \E c \in Range(log'[i].d.req.colors) :
                 c.color_type = "color_temp" /\ c.color <= 0)
          => /\ log'[i].d.result = "ok"
             /\ log'[i].a \in 1..Len(obj')
             /\ LET o == obj'[log'[i].a]
                    usable == UsableColors(log'[i].d.req.colors)
                IN  /\ o.name = log'[i].d.req.name
                    /\ Len(o.colors) = Len(usable)
                    /\ \A k \in 1..Len(usable) :
                          /\ o.colors[k].color_type # "color_temp"
                          /\ o.colors[k].weight = usable[k].weight
                          /\ usable[k].color_type # "color_temp" => o.colors[k] = usable[k]
                    /\ o.weights = [k \in 1..Len(usable) |-> usable[k].weight]]_vars

\* 1_000_000 / m rounded to the nearest integer, and the clamp
RoundedKelvin(m) == (2000000 + m) \div (2 * m)
Clamped(k) == IF k < MIN_KELVIN THEN MIN_KELVIN ELSE IF k > MAX_KELVIN THEN MAX_KELVIN ELSE k

\* C18 as the specification states it: for mireds > 0 the result is
\* round(1_000_000 / mireds) clamped into [MIN_KELVIN, MAX_KELVIN]; for
\* mireds <= 0 the call fails and returns no value.
C18_RoundedKelvin ==
    call_kelvin # NotCalled
    => IF call_mireds > 0
       THEN /\ call_kelvin.out = "value"
            /\ call_kelvin.value = Clamped(RoundedKelvin(call_mireds))
       ELSE call_kelvin.out = "error" /\ call_kelvin.value = None

\* C18, amended: for mireds > 0 the result k lies in [MIN_KELVIN, MAX_KELVIN]
\* and is the clamp of the quotient 1_000_000 / mireds truncated to an
\* integer: strictly inside the interval k is the largest integer with
\* k * mireds <= 1_000_000, at MIN_KELVIN the quotient is below
\* MIN_KELVIN + 1, at MAX_KELVIN it is at least MAX_KELVIN; for mireds <= 0
\* the call fails and returns no value.
C18_TruncatedKelvin ==
    call_kelvin # NotCalled
    => IF call_mireds > 0
       THEN /\ call_kelvin.out = "value"
            /\ LET k == call_kelvin.value
               IN  /\ MIN_KELVIN <= k /\ k <= MAX_KELVIN
                   /\ k > MIN_KELVIN => k * call_mireds <= 1000000
                   /\ k < MAX_KELVIN => 1000000 < (k + 1) * call_mireds
       ELSE call_kelvin.out = "error" /\ call_kelvin.value = None

\* 370 mireds were converted: the quotient 2702.7 lies inside the interval
\* and was truncated
C18_Witness == call_mireds = 370 /\ call_kelvin.out = "value" /\ call_kelvin.value = 2702

\* the coroutine of animate has run or is about to run: its try statement
\* is or will be entered
LoopStarted(a) ==
    \/ obj[a].task \in {"gather", "sleep", "restore"}
    \/ obj[a].task = "created" /\ ~obj[a].cancel

\* C19: when the task of a loop that was started ends, for whatever reason
\* the loop was left, release() has run to completion: release_light was
\* run for every active light, the animation is no longer registered, the
\* stopped notification was emitted.
C19_LoopExitReleases ==
    [][\A a \in 1..Len(obj) :
          (LoopStarted(a) /\ TaskDone(obj'[a].task))
          => /\ Range(obj'[a].active) \subseteq obj'[a].released
             /\ Get(animations', obj'[a].name) # a
             /\ \E i \in 1..Len(log') :
                   log'[i].ev = "fire" /\ log'[i].a = a /\ log'[i].d = "stopped"]_vars

\* positions of the log of a step
ReleaseAnimationAt(L, i, a) == L[i].ev = "release_animation" /\ L[i].a = a
StoppedAt(L, i, a) == L[i].ev = "fire" /\ L[i].a = a /\ L[i].d = "stopped"

\* C20: within one release() of an animation, release_light has been
\* completed for every active light when the animation is removed from the
\* registry (no release_light of it is suspended or follows the removal),
\* and the stopped notification is emitted only after that removal, when
\* the animation is no longer registered.
C20_ReleaseOrder ==
    [][\A a \in 1..Len(obj') :
          /\ \A i \in 1..Len(log') :
                ReleaseAnimationAt(log', i, a)
                => /\ Range(obj'[a].active) \subseteq obj'[a].released
                   /\ obj'[a].rel = 0
                   /\ \A j \in 1..Len(log') :
                         (log'[j].a = a /\ log'[j].ev \in {"release_light", "del_state", "call"})
                         => j < i
          /\ \A j \in 1..Len(log') :
                StoppedAt(log', j, a)
                => /\ \E i \in 1..(j - 1) : ReleaseAnimationAt(log', i, a)
                   /\ Get(animations', obj'[a].name) # a]_vars

\* release_light ran in the step for animation a and light l, which another
\* animation owned
ReleasedByOther(e) == e.ev = "release_light" /\ e.d.owner # e.a

\* C21: release_light(A, L) called while light_owner[L] is not A takes A off
\* light_animations[L] and does nothing else: the owner of L and the stored
\* state of L are as before and the step issues no call for L.
C21_NonOwnerRelease ==
    [][\A i \in 1..Len(log') :
          ReleasedByOther(log'[i])
          => LET a == log'[i].a
                 l == log'[i].l
             IN  /\ light_animations'[l] = RemoveFirst(light_animations[l], a)
                 /\ light_owner'[l] = light_owner[l]
                 /\ light_owner[l] = log'[i].d.owner
                 /\ (l \in DOMAIN states') = (l \in DOMAIN states)
                 /\ l \in DOMAIN states => states'[l] = states[l]
                 /\ \A j \in 1..Len(log') :
                       log'[j].l = l => log'[j].ev \notin {"call", "handoff", "del_state"}]_vars

\* a suppressed animation released a light whose owner is registered and
\* whose snapshot is stored
C21_Witness ==
    \E i \in 1..Len(log) :
       /\ ReleasedByOther(log[i])
       /\ log[i].l \in DOMAIN states
       /\ Registered(light_owner[log[i].l])
       /\ obj[log[i].a].priority < obj[light_owner[log[i].l]].priority

\* the animations left in light_animations[l] once a is taken off it that
\* have l among their configured lights, in insertion order
Candidates(a, l) ==
    SelectSeq(RemoveFirst(light_animations[l], a), LAMBDA x : l \in Range(obj[x].lights))

\* the owner of l released it in the step, ownership transfer not skipped
ReleasedByOwnerAt(e) == e.ev = "release_light" /\ e.d.owner = e.a /\ ~e.d.skip_ownership

\* C22: when the owner A of L releases L without skip_ownership and other
\* animations that have L among their lights remain in light_animations[L],
\* the owner of L becomes the remaining animation of highest priority, the
\* earliest in insertion order among those of equal priority; no call is
\* issued for L and the stored state of L is kept.
C22_HandOff ==
    [][\A i \in 1..Len(log') :
          (ReleasedByOwnerAt(log'[i]) /\ \E x \in Range(Candidates(log'[i].a, log'[i].l)) : x # log'[i].a)
          => LET l == log'[i].l
                 c == Candidates(log'[i].a, l)
             IN  /\ \E k \in 1..Len(c) :
                       /\ light_owner'[l] = c[k]
                       /\ c[k] # log'[i].a
                       /\ \A j \in 1..Len(c) : obj[c[j]].priority <= obj[c[k]].priority
                       /\ \A j \in 1..(k - 1) : obj[c[j]].priority < obj[c[k]].priority
                 /\ \A j \in 1..Len(log') :
                       log'[j].l = l => log'[j].ev \notin {"call", "del_state"}
                 /\ (l \in DOMAIN states') = (l \in DOMAIN states)
                 /\ l \in DOMAIN states => states'[l] = states[l]]_vars

\* a scheduled _handle_external_light_change ran in the step
HandlerRan(e) == e \in events /\ events' = events \ {e}

\* the animations of light_animations[l] that have l among their lights
Referencing(l) ==
    IF l \in DOMAIN light_animations
    THEN SelectSeq(light_animations[l], LAMBDA x : l \in Range(obj[x].lights))
    ELSE <<>>

\* C23: when a tracked light goes from off to on the handler stores a
\* snapshot of it if there is none, and only an animation of highest
\* priority among those referencing the light, and only if it owns the
\* light, writes to it (its update_light runs: it makes the call, or fails
\* to build the payload when it has no colour); for every other event (on to off, on to on, old or
\* new state missing) the handler changes nothing of the manager and issues
\* no call.
C23_ExternalChange ==
    [][\A e \in events : HandlerRan(e) =>
          LET l == e.entity_id
              c == Referencing(l)
          IN  IF e.old = "off" /\ e.new = "on"
              THEN /\ states' = IF l \in DOMAIN states THEN states
                                ELSE Put(states, l, hass_states[l])
                   /\ light_owner' = light_owner
                   /\ light_animations' = light_animations
                   /\ animations' = animations
                   /\ \A i \in 1..Len(log') : log'[i].ev = "call" =>
                         /\ log'[i].l = l
                         /\ log'[i].d.service = "turn_on"
                         /\ log'[i].a \in Range(c)
                         /\ \A x \in Range(c) :
                               obj[x].priority <= obj[log'[i].a].priority
                         /\ light_owner[l] = log'[i].a
                   /\ (c # <<>> /\ \A x \in Range(c) :
                                     obj[x].priority <= obj[c[1]].priority
                                  /\ light_owner[l] = c[1])
                      => \E i \in 1..Len(log') :
                            /\ log'[i].a = c[1]
                            /\ IF NoColorAt(obj[c[1]])
                               THEN log'[i].ev = "error"
                                    /\ log'[i].d = "IndexError colors"
                               ELSE log'[i].ev = "call"
              ELSE /\ UNCHANGED <<obj, animations, states, light_animations,
                                  light_owner, listener>>
                   /\ \A i \in 1..Len(log') : log'[i].ev # "call"]_vars

\* a light went from off to on and the handler stored its snapshot and let
\* the owner write to it
C23_Witness ==
    \E i \in 1..Len(log) :
       /\ log[i].ev = "call" /\ log[i].d.via = "external"
       /\ log[i].l \in DOMAIN states
       /\ light_owner[log[i].l] = log[i].a

\* C24: whenever no operation of the manager is in progress the external
\* change subscription exists exactly when stored_states is not empty, and
\* it covers exactly the lights that have a stored state.
C24_ListenerCoversStates ==
    AtRest => /\ listener.on = (DOMAIN states # {})
              /\ listener.lights = DOMAIN states

\* C25: ignore_off set means that lights that are off are skipped: a light
\* that is off when the animation is constructed is left out of its active
\* set if ignore_off is set and is taken in if it is not, and with ignore_off
\* set a tick selects only lights that are on.
C25_IgnoreOffSkipsOff ==
    [][\A i \in 1..Len(log') :
          LET a == log'[i].a IN
          /\ log'[i].ev = "register" =>
                \A l \in Range(obj'[a].lights) :
                   hass_states[l].state = "off" =>
                      (l \in Range(obj'[a].active) <=> ~obj'[a].ignore_off)
          /\ (log'[i].ev = "tick" /\ obj[a].ignore_off) =>
                \A l \in log'[i].d : hass_states[l].state # "off"]_vars

\* update_lights resolved the number of lights of a tick in the step
Resolved(e) == e.ev = "amount"

\* the lights the tick of animation a selected in the step
Selected(a) ==
    UNION {log'[j].d : j \in {k \in 1..Len(log') : log'[k].ev = "tick" /\ log'[k].a = a}}

\* C26: a tick resolves change_amount to a number n: the number itself, a
\* number within the two bounds, or the size of the active set for "all";
\* it then selects at most n lights of the active set, each once; with
\* "all" and no light filtered out for being off it selects every active
\* light; and with n <= 0 it is a no-op: no call, current_color_index and
\* the per-light state unchanged.
C26_TickAmount ==
    [][\A i \in 1..Len(log') : Resolved(log'[i]) =>
          LET a == log'[i].a
              n == log'[i].d
              amount == obj[a].change_amount
              active == Range(obj[a].active)
          IN  /\ amount.kind = "all" => n = Len(obj[a].active)
              /\ amount.kind = "int" => n = amount.n
              /\ amount.kind = "range" => n \in amount.n..amount.hi
              /\ Selected(a) \subseteq active
              /\ Cardinality(Selected(a)) <= IF n > 0 THEN n ELSE 0
              /\ obj'[a].pend = Selected(a)
              /\ (amount.kind = "all" /\ \A l \in active : hass_states[l].state # "off")
                 => Selected(a) = active
              /\ n <= 0 =>
                    /\ \A j \in 1..Len(log') : log'[j].ev # "call"
                    /\ obj'[a].current_color_index = obj[a].current_color_index
                    /\ obj'[a].light_status = obj[a].light_status]_vars

\* the payload carries the colour of the colour group c
CarriesColor(attrs, c) == c.color_type \in DOMAIN attrs /\ attrs[c.color_type] = c.color

\* the payload carries a colour attribute at all
HasColor(attrs) ==
    DOMAIN attrs \cap {"rgb_color", "color_temp", "color_temp_kelvin"} # {}

InitialCall(e) == e.ev = "call" /\ e.d.via = "initial"

\* C28: the initial update of start is issued once for every active light
\* the animation owns, and its payload carries a colour attribute and a
\* brightness whatever animate_color and animate_brightness are and whether
\* the brightness settings are single values or lists of two bounds; the
\* payload of a later update carries a colour only if animate_color is set.
C28_InitialPayload ==
    [][/\ \A i \in 1..Len(log') :
             LET a == log'[i].a
                 l == log'[i].l
             IN  /\ InitialCall(log'[i]) =>
                       /\ l \in obj[a].pend /\ l \notin obj'[a].pend
                       /\ l \in Range(obj[a].active) /\ light_owner[l] = a
                       /\ HasColor(log'[i].d.attrs)
                       /\ "brightness" \in DOMAIN log'[i].d.attrs
                 /\ (log'[i].ev = "call" /\ log'[i].d.via = "update"
                     /\ HasColor(log'[i].d.attrs)) => obj[a].animate_color
       /\ \A a \in Objects, l \in Lights :
             (/\ obj[a].task = "none" /\ l \in obj[a].pend /\ l \notin obj'[a].pend
              /\ light_owner[l] = a /\ ~obj[a].cancel)
             => \E i \in 1..Len(log') :
                   InitialCall(log'[i]) /\ log'[i].a = a /\ log'[i].l = l]_vars

\* C29: outside the one-change-per-tick branch, when the selected colour
\* carries a brightness the brightness of the payload is taken from it: a
\* value of the colour's brightness when animate_brightness is set, its
\* single value when it is not; the global brightness is used only for a
\* colour without a brightness.
C29_ColourBrightness ==
    [][\A i \in 1..Len(log') :
          (/\ log'[i].ev = "call" /\ log'[i].d.via \in {"initial", "update", "external"}
           /\ HasColor(log'[i].d.attrs))
          => LET a == log'[i].a
                 attrs == log'[i].d.attrs
             IN  \E k \in 1..Len(obj[a].colors) :
                    LET color == obj[a].colors[k]
                    IN  /\ CarriesColor(attrs, color)
                        /\ "brightness" \in DOMAIN color =>
                              /\ "brightness" \in DOMAIN attrs
                              /\ attrs.brightness \in color.brightness.lo..color.brightness.hi]_vars

\* stop cancelled the task of animation a in the step
CancelledAt(a) ==
    \E i \in 1..Len(log') : log'[i].ev = "cancel" /\ log'[i].a = a

\* C30: a cancellation takes effect only at the sleep of the loop: when stop
\* cancels the task while it is suspended in the gather of a tick's updates,
\* the updates still due are carried out, and the loop is not ended before
\* the gather is over.
C30_CancelAtSleep ==
    [][\A a \in Objects :
          /\ (CancelledAt(a) /\ obj[a].task = "gather") => obj'[a].pend = obj[a].pend
          /\ (obj[a].cancel /\ obj[a].task = "gather" /\ obj'[a].task # "gather")
             => obj'[a].task = "sleep"]_vars

\* animation x is over: it is out of the registry and its task, if it had
\* one, is done
Over(x) ==
    /\ ~Registered(x)
    /\ obj[x].task \notin {"created", "gather", "sleep", "restore"}
    /\ obj[x].pend = {}

\* animation x refers to light l: by its configuration, by its active set or
\* by the manager's list of the light
RefersTo(x, l) ==
    l \in Range(obj[x].lights) \cup Range(obj[x].active) \/ Listed(x, l)

\* Animations.start registered the new animation n in the step
RegisteredAt(e) == e.ev = "register"

\* C32: ownership does not outlive the animations: when every animation
\* that referred to light L is over, an animation that is started with L
\* among its lights becomes the owner of L whatever its priority.
C32_OwnershipEnds ==
    [][\A i \in 1..Len(log') : RegisteredAt(log'[i]) =>
          LET n == log'[i].a
          IN  \A l \in Range(obj'[n].lights) :
                 (\A x \in Objects : RefersTo(x, l) => Over(x))
                 => (l \in DOMAIN light_owner' /\ light_owner'[l] = n)]_vars

\* C33: no light is written by an animation that is out of the registry:
\* once the release of an animation is complete, nothing makes it issue a
\* turn_on, neither a tick nor a change of a light from outside.
C33_NoWriteAfterRelease ==
    [][\A i \in 1..Len(log') :
          (/\ log'[i].ev = "call"
           /\ log'[i].d.via \in {"initial", "update", "external"})
          => ~Over(log'[i].a)]_vars

\* the step is one of the remove_lights request in slot h
RemoveStep(h) ==
    /\ handlers'[h] # handlers[h]
    /\ handlers[h].op = "remove" \/ handlers'[h].op = "remove"
       \/ (handlers[h].op = "idle" /\ handlers'[h].op = "idle"
           /\ \E i \in 1..Len(log') : log'[i].ev = "return" /\ log'[i].d.op = "remove")

\* the lights the remove_lights request of the step names
RemoveLightsOf(h) ==
    IF handlers[h].op = "remove" THEN Range(handlers[h].req.lights)
    ELSE IF handlers'[h].op = "remove" THEN Range(handlers'[h].req.lights)
    ELSE UNION {Range(log'[i].d.req.lights) :
                  i \in {j \in 1..Len(log') : log'[j].ev = "return"
                                                /\ log'[j].d.op = "remove"}}

\* C34: remove_lights can be repeated: for lights that no animation refers
\* to any more (removed already, or their last animation over) it raises no
\* error, issues no call and changes nothing of the manager.
C34_RemoveAgain ==
    [][\A h \in Slots :
          (/\ RemoveStep(h) \/ (\E i \in 1..Len(log') : log'[i].ev = "return"
                                     /\ log'[i].d.op = "remove" /\ handlers[h].op = "remove")
           /\ \A l \in RemoveLightsOf(h) \cap Lights :
                  \A x \in Objects : RefersTo(x, l) => Over(x))
          => /\ UNCHANGED <<animations, states, light_animations, light_owner,
                             listener>>
             /\ \A i \in 1..Len(log') :
                   /\ log'[i].ev \notin {"call", "error"}
                   /\ log'[i].ev = "return" => log'[i].d.result = "ok"]_vars

\* the number of times animation a is in the list s
Occurrences(s, a) == Cardinality({i \in 1..Len(s) : s[i] = a})

\* C35: after any sequence of start and add_lights_to_animation requests,
\* also one that adds a light the animation has already, light_animations of
\* a light holds each animation at most once.
C35_ListedOnce ==
    \A l \in DOMAIN light_animations :
       \A a \in Objects : Occurrences(light_animations[l], a) <= 1

\* C36: a tick whose resolved number of lights is larger than the number of
\* active lights does not end the animation: it selects active lights only,
\* the animation stays in the registry and its loop goes on to the sleep.
C36_AmountAboveActive ==
    [][\A i \in 1..Len(log') :
          (Resolved(log'[i]) /\ log'[i].d > Len(obj[log'[i].a].active))
          => LET a == log'[i].a
             IN  /\ Selected(a) \subseteq Range(obj[a].active)
                 /\ Registered(a) => Get(animations', obj'[a].name) = a
                 /\ obj'[a].task \in {"gather", "sleep"}
                 /\ \A j \in 1..Len(log') : log'[j].ev # "error"]_vars

\* C37: once a light has a stored state, no step changes its value as long
\* as it is not deleted: not a further start or add_lights_to_animation
\* that includes the light, not a hand-off, not a change from outside.
C37_SnapshotStable ==
    [][\A l \in DOMAIN states \cap DOMAIN states' : states'[l] = states[l]]_vars

\* a second animation was started on a light whose stored state is no
\* longer the state of the light
C37_Witness ==
    \E l \in DOMAIN states :
       /\ states[l] # hass_states[l]
       /\ l \in DOMAIN light_animations /\ Len(light_animations[l]) = 2
       /\ \E i \in 1..Len(log) : log[i].ev = "register" /\ log[i].a = light_animations[l][2]

\* C38: the release of an animation touches its own registration only:
\* release_animation never removes the entry of another Animation object of
\* the same name, and it does not fail when the name of the releasing
\* animation is not in the registry any more.
C38_ReleaseOwnEntry ==
    [][\A i \in 1..Len(log') :
          /\ log'[i].ev = "release_animation" => log'[i].d = log'[i].a
          /\ log'[i].ev = "error" => log'[i].d # "KeyError animations"]_vars

\* C39: a second stop that arrives while the task of an animation is in
\* release() after a first cancellation does not interrupt the release:
\* every active light is still released and the animation leaves the
\* registry.
C39_ReleaseNotInterrupted ==
    [][\A a \in Objects :
          (obj[a].task = "restore" /\ obj'[a].task # "restore")
          => /\ \A i \in 1..Len(log') :
                   log'[i].a = a => log'[i].ev # "task_cancelled"
             /\ TaskDone(obj'[a].task) =>
                   /\ Get(animations', obj'[a].name) # a
                   /\ Range(obj'[a].active) \subseteq obj'[a].released]_vars

\* the animation is in no structure of the manager
Unknown(n) ==
    /\ \A name \in DOMAIN animations : animations[name] # n
    /\ \A l \in DOMAIN light_owner : light_owner[l] # n
    /\ \A l \in DOMAIN light_animations : ~Listed(n, l)

\* the animation is registered and its loop task is alive
Alive(n) ==
    /\ Get(animations, obj[n].name) = n
    /\ obj[n].task \in {"created", "gather", "sleep"}

StartEnded(e) == e.ev = "return" /\ e.d.op = "start" /\ e.a # 0

\* C40: when Manager.start returns or raises for a request that passed the
\* schema, the animation it constructed is either in no structure of the
\* manager (registry, light_owner, light_animations) or registered with a
\* live loop task
C40_StartAllOrNothing ==
    \A i \in 1..Len(log) : StartEnded(log[i]) => Unknown(log[i].a) \/ Alive(log[i].a)

\* the animation is registered, its task is alive and not being cancelled,
\* and none of its calls hangs
KeepsGoing(b) == b \in Objects /\ Alive(b) /\ ~obj[b].cancel /\ ~Hung(b)

\* the last step was a tick of the animation
TickedNow(b) == \E i \in 1..Len(log) : log[i].ev = "tick" /\ log[i].a = b

\* while a call of the animation hangs and nobody stops it, its task stays
\* in the gather of the tick and starts no other tick
StallsWhileHung ==
    [][\A a \in Objects :
          (Hung(a) /\ ~obj'[a].cancel)
             => /\ obj[a].hung \subseteq obj'[a].hung
                /\ obj'[a].task = "gather"
                /\ \A i \in 1..Len(log') : log'[i].a = a => log'[i].ev # "tick"]_vars

\* every animation ticks again and again as long as it is running
OthersKeepTicking == \A b \in LiveObjects : []<>(~KeepsGoing(b) \/ TickedNow(b))

\* every request that was accepted is answered
RequestsComplete ==
    \A h \in Slots : (handlers[h].op # "idle") ~> (handlers[h].op = "idle")

\* C31: a light service call of an animation that never returns stalls the
\* tick of that animation for as long as it is not stopped, while every
\* other running animation goes on ticking without end and every start or
\* stop request is answered
C31_HungCallStallsOne == StallsWhileHung /\ OthersKeepTicking /\ RequestsComplete

C31_Witness ==
    \E a \in Objects, b \in Objects :
       a # b /\ Hung(a) /\ KeepsGoing(b) /\ TickedNow(b) /\ nops = scope.ops

==============================================================================
